---- MODULE Spec2Model ----
(***************************************************************************)
(* A model of vampirc-uci: the UCI message parser (src/src/parser.rs) and   *)
(* the message model with its serializer (src/src/uci.rs).                  *)
(*                                                                          *)
(* Text is a sequence of one-character strings.  A message is a record      *)
(* tagged by "type"; Option<T> is the empty sequence (None) or a sequence   *)
(* of one element (Some).  The PEG grammar res/uci.pest is not part of the  *)
(* sources at hand: the recogniser below (the Grammar section) is written   *)
(* from the specification and from the rule names and tests of parser.rs;   *)
(* it yields the tree of pairs that the builder of parser.rs walks.         *)
(***************************************************************************)
EXTENDS Integers, Sequences, FiniteSets, TLC

(***************************************************************************)
(* Bounds of the model.                                                     *)
(***************************************************************************)
MaxLines == 3
MaxDigits == 5

(***************************************************************************)
(* Option<T>                                                                *)
(***************************************************************************)
None == <<>>
Some(x) == <<x>>
is_some(o) == Len(o) = 1
is_none(o) == Len(o) = 0
unwrap(o) == o[1]

(***************************************************************************)
(* Characters and strings.                                                  *)
(***************************************************************************)
UpperAlpha == <<"A","B","C","D","E","F","G","H","I","J","K","L","M",
                "N","O","P","Q","R","S","T","U","V","W","X","Y","Z">>
LowerAlpha == <<"a","b","c","d","e","f","g","h","i","j","k","l","m",
                "n","o","p","q","r","s","t","u","v","w","x","y","z">>
DigitChars == <<"0","1","2","3","4","5","6","7","8","9">>

to_ascii_lowercase_char(c) ==
    IF \E i \in 1..26 : UpperAlpha[i] = c
    THEN LowerAlpha[CHOOSE i \in 1..26 : UpperAlpha[i] = c]
    ELSE c

to_ascii_lowercase(s) == [i \in 1..Len(s) |-> to_ascii_lowercase_char(s[i])]

eq_exact(s, t) == s = t
eq_ignore_ascii_case(s, t) == to_ascii_lowercase(s) = to_ascii_lowercase(t)

IsDigit(c) == \E i \in 1..10 : DigitChars[i] = c
DigitVal(c) == (CHOOSE i \in 1..10 : DigitChars[i] = c) - 1
AllDigits(s) == Len(s) >= 1 /\ \A i \in 1..Len(s) : IsDigit(s[i])

\* Rust's char::is_whitespace on the characters of the model.
IsWhitespace(c) == c \in {" ", "\t", "\n", "\r"}

\* str::trim_end: the text without its trailing whitespace.
RECURSIVE trim_end(_)
trim_end(s) ==
    IF Len(s) > 0 /\ IsWhitespace(s[Len(s)])
    THEN trim_end(SubSeq(s, 1, Len(s) - 1))
    ELSE s

RECURSIVE trim_start(_)
trim_start(s) ==
    IF Len(s) > 0 /\ IsWhitespace(s[1])
    THEN trim_start(SubSeq(s, 2, Len(s)))
    ELSE s

untrimmed(s) == s

\* str::trim
trim(s) == trim_start(trim_end(s))

\* The value of a run of decimal digits.
RECURSIVE DigitsVal(_)
DigitsVal(s) ==
    IF Len(s) = 0 THEN 0
    ELSE 10 * DigitsVal(SubSeq(s, 1, Len(s) - 1)) + DigitVal(s[Len(s)])

\* format!("{}", n) of a non-negative integer, and of a signed one.
RECURSIVE FormatNat(_)
FormatNat(n) ==
    IF n < 10 THEN <<DigitChars[n + 1]>>
    ELSE Append(FormatNat(n \div 10), DigitChars[(n % 10) + 1])

FormatInt(n) == IF n < 0 THEN <<"-">> \o FormatNat(0 - n) ELSE FormatNat(n)

(***************************************************************************)
(* The keywords of the protocol, as texts.                                  *)
(***************************************************************************)
KW ==
    [ uci |-> <<"u","c","i">>,
      debug |-> <<"d","e","b","u","g">>,
      on |-> <<"o","n">>,
      off |-> <<"o","f","f">>,
      isready |-> <<"i","s","r","e","a","d","y">>,
      setoption |-> <<"s","e","t","o","p","t","i","o","n">>,
      name |-> <<"n","a","m","e">>,
      value |-> <<"v","a","l","u","e">>,
      register |-> <<"r","e","g","i","s","t","e","r">>,
      later |-> <<"l","a","t","e","r">>,
      code |-> <<"c","o","d","e">>,
      ucinewgame |-> <<"u","c","i","n","e","w","g","a","m","e">>,
      stop |-> <<"s","t","o","p">>,
      quit |-> <<"q","u","i","t">>,
      ponderhit |-> <<"p","o","n","d","e","r","h","i","t">>,
      position |-> <<"p","o","s","i","t","i","o","n">>,
      startpos |-> <<"s","t","a","r","t","p","o","s">>,
      fen |-> <<"f","e","n">>,
      moves |-> <<"m","o","v","e","s">>,
      go |-> <<"g","o">>,
      ponder |-> <<"p","o","n","d","e","r">>,
      infinite |-> <<"i","n","f","i","n","i","t","e">>,
      movetime |-> <<"m","o","v","e","t","i","m","e">>,
      wtime |-> <<"w","t","i","m","e">>,
      btime |-> <<"b","t","i","m","e">>,
      bt |-> <<"b","t">>,
      winc |-> <<"w","i","n","c">>,
      binc |-> <<"b","i","n","c">>,
      movestogo |-> <<"m","o","v","e","s","t","o","g","o">>,
      depth |-> <<"d","e","p","t","h">>,
      mate |-> <<"m","a","t","e">>,
      nodes |-> <<"n","o","d","e","s">>,
      searchmoves |-> <<"s","e","a","r","c","h","m","o","v","e","s">>,
      id |-> <<"i","d">>,
      author |-> <<"a","u","t","h","o","r">>,
      uciok |-> <<"u","c","i","o","k">>,
      readyok |-> <<"r","e","a","d","y","o","k">>,
      bestmove |-> <<"b","e","s","t","m","o","v","e">>,
      copyprotection |-> <<"c","o","p","y","p","r","o","t","e","c","t","i","o","n">>,
      registration |-> <<"r","e","g","i","s","t","r","a","t","i","o","n">>,
      checking |-> <<"c","h","e","c","k","i","n","g">>,
      ok |-> <<"o","k">>,
      error |-> <<"e","r","r","o","r">>,
      option |-> <<"o","p","t","i","o","n">>,
      type |-> <<"t","y","p","e">>,
      default |-> <<"d","e","f","a","u","l","t">>,
      min |-> <<"m","i","n">>,
      max |-> <<"m","a","x">>,
      var |-> <<"v","a","r">>,
      check |-> <<"c","h","e","c","k">>,
      spin |-> <<"s","p","i","n">>,
      combo |-> <<"c","o","m","b","o">>,
      button |-> <<"b","u","t","t","o","n">>,
      string |-> <<"s","t","r","i","n","g">>,
      info |-> <<"i","n","f","o">>,
      seldepth |-> <<"s","e","l","d","e","p","t","h">>,
      time |-> <<"t","i","m","e">>,
      pv |-> <<"p","v">>,
      multipv |-> <<"m","u","l","t","i","p","v">>,
      score |-> <<"s","c","o","r","e">>,
      cp |-> <<"c","p">>,
      lowerbound |-> <<"l","o","w","e","r","b","o","u","n","d">>,
      upperbound |-> <<"u","p","p","e","r","b","o","u","n","d">>,
      currmove |-> <<"c","u","r","r","m","o","v","e">>,
      currmovenum |-> <<"c","u","r","r","m","o","v","e","n","u","m">>,
      hashfull |-> <<"h","a","s","h","f","u","l","l">>,
      nps |-> <<"n","p","s">>,
      tbhits |-> <<"t","b","h","i","t","s">>,
      sbhits |-> <<"s","b","h","i","t","s">>,
      cpuload |-> <<"c","p","u","l","o","a","d">>,
      refutation |-> <<"r","e","f","u","t","a","t","i","o","n">>,
      currline |-> <<"c","u","r","r","l","i","n","e">>,
      cpunr |-> <<"c","p","u","n","r">>,
      true |-> <<"t","r","u","e">>,
      false |-> <<"f","a","l","s","e">>,
      empty |-> <<"<","e","m","p","t","y",">">> ]

(***************************************************************************)
(* Grammar (res/uci.pest): lines, tokens and pairs.                         *)
(*                                                                          *)
(* A pair is what pest hands to the builder: the rule that matched, the     *)
(* text it spans and the pairs of its sub-rules, in the order of the text.  *)
(***************************************************************************)
Pair(rule, str, inner) == [rule |-> rule, str |-> str, inner |-> inner]

\* The text cut at every "\n", the terminators left out; one "\r" before a
\* "\n" belongs to the terminator.  Text after the last "\n" is a last line.
RECURSIVE SplitAt(_, _, _, _)
SplitAt(s, i, start, acc) ==
    IF i > Len(s)
    THEN IF start <= Len(s) THEN Append(acc, SubSeq(s, start, Len(s))) ELSE acc
    ELSE IF s[i] = "\n"
         THEN SplitAt(s, i + 1, i + 1, Append(acc, SubSeq(s, start, i - 1)))
         ELSE SplitAt(s, i + 1, start, acc)

\* StripCr as it would be if "\r" were no part of a line terminator.
KeepCr(l) == l

StripCr(l) == IF Len(l) > 0 /\ l[Len(l)] = "\r" THEN SubSeq(l, 1, Len(l) - 1) ELSE l

Lines(s) == LET raw == SplitAt(s, 1, 1, <<>>)
            IN  [i \in 1..Len(raw) |-> StripCr(raw[i])]

\* WHITESPACE of the grammar: blanks and tabs between the tokens of a line.
IsBlank(c) == c \in {" ", "\t"}

\* The tokens of a line: the <<first, last>> positions of its maximal runs of
\* non-blank characters.
RECURSIVE TokScan(_, _, _, _)
TokScan(l, i, start, acc) ==
    IF i > Len(l)
    THEN IF start > 0 THEN Append(acc, <<start, Len(l)>>) ELSE acc
    ELSE IF IsBlank(l[i])
         THEN TokScan(l, i + 1, 0, IF start > 0 THEN Append(acc, <<start, i - 1>>) ELSE acc)
         ELSE TokScan(l, i + 1, IF start > 0 THEN start ELSE i, acc)

Tokens(l) == TokScan(l, 1, 0, <<>>)

\* The text of token k, the text from token k to token m (the blanks between
\* them kept as written), and token k as a keyword is matched: case-blind.
Tok(l, toks, k) == SubSeq(l, toks[k][1], toks[k][2])
Span(l, toks, k, m) == SubSeq(l, toks[k][1], toks[m][2])
Word(l, toks, k) == to_ascii_lowercase(Tok(l, toks, k))
IsKw(l, toks, k, kw) == k <= Len(toks) /\ Word(l, toks, k) = kw

\* digits3, digits12: a run of 1..3 and of 1..12 decimal digits.
IsDigitsUpTo(t, n) == AllDigits(t) /\ Len(t) <= n
\* i64: an optional sign and a run of digits.
IsI64Text(t) ==
    IF Len(t) > 0 /\ t[1] = "-" THEN AllDigits(Tail(t)) ELSE AllDigits(t)

\* a_move: from-square, to-square and an optional promotion letter.
IsFile(c) == c \in {"a","b","c","d","e","f","g","h"}
IsRank(c) == c \in {"1","2","3","4","5","6","7","8"}
IsPromotionLetter(c) == to_ascii_lowercase_char(c) \in {"q","r","b","n","k","p"}
IsMoveText(t) ==
    /\ Len(t) \in {4, 5}
    /\ IsFile(t[1]) /\ IsRank(t[2]) /\ IsFile(t[3]) /\ IsRank(t[4])
    /\ (Len(t) = 5 => IsPromotionLetter(t[5]))

SquarePair(t) ==
    Pair("square", t, << Pair("file", <<t[1]>>, <<>>), Pair("rank", <<t[2]>>, <<>>) >>)

MovePair(t) ==
    Pair("a_move", t,
         << Pair("from_sq", SubSeq(t, 1, 2), <<SquarePair(SubSeq(t, 1, 2))>>),
            Pair("to_sq", SubSeq(t, 3, 4), <<SquarePair(SubSeq(t, 3, 4))>>) >>
         \o (IF Len(t) = 5 THEN <<Pair("promotion", <<t[5]>>, <<>>)>> ELSE <<>>))

\* A result of a sub-rule that reads tokens from k on: whether it matched,
\* the pairs it made and the first token it left unread.
Matched(pairs, next) == [ok |-> TRUE, pairs |-> pairs, next |-> next]
NoMatch == [ok |-> FALSE, pairs |-> <<>>, next |-> 0]

\* a_move*: the moves from token k on, as many as there are.
RECURSIVE MovesFrom(_, _, _, _)
MovesFrom(l, toks, k, acc) ==
    IF k <= Len(toks) /\ IsMoveText(Tok(l, toks, k))
    THEN MovesFrom(l, toks, k + 1, Append(acc, MovePair(Tok(l, toks, k))))
    ELSE Matched(acc, k)

(***************************************************************************)
(* Grammar: the rule of each command.  Each takes a line and its tokens and *)
(* gives the pair of the command, or NoPair when the line is no such        *)
(* command.                                                                 *)
(***************************************************************************)
NoPair == Pair("none", <<>>, <<>>)

\* A clause "keyword number": the pair of the keyword rule around the pair of
\* the number rule.
NumClause(rule, numrule, t) == Pair(rule, t, <<Pair(numrule, t, <<>>)>>)

\* uci, isready, ucinewgame, stop, ponderhit, quit, uciok, readyok: the keyword
\* alone on its line.
AtomicRule(l, toks, rule) ==
    IF Len(toks) = 1 THEN Pair(rule, l, <<>>) ELSE NoPair

\* debug: the keyword and a switch, on or off.
DebugRule(l, toks) ==
    IF Len(toks) = 2 /\ Word(l, toks, 2) \in {KW.on, KW.off}
    THEN Pair("debug", l, <<Pair("switch", Tok(l, toks, 2), <<>>)>>)
    ELSE NoPair

\* The first token from k on that is the keyword kw, or 0.
RECURSIVE FindKw(_, _, _, _)
FindKw(l, toks, k, kw) ==
    IF k > Len(toks) THEN 0
    ELSE IF Word(l, toks, k) = kw THEN k
    ELSE FindKw(l, toks, k + 1, kw)

\* setoption name <name...> [value <value...>]: the name is the text up to
\* the value keyword, the whitespace before the keyword included, the value
\* all the text after it.
SetOptionRule(l, toks) ==
    LET n == Len(toks)
        v == FindKw(l, toks, 4, KW.value)
    IN  IF n >= 3 /\ IsKw(l, toks, 2, KW.name) /\ ~IsKw(l, toks, 3, KW.value)
        THEN IF v = 0
             THEN Pair("setoption", l,
                    <<Pair("option_internal", l,
                        <<Pair("option_name", SubSeq(l, toks[3][1], Len(l)), <<>>)>>)>>)
             ELSE IF v < n
             THEN Pair("setoption", l,
                    <<Pair("option_internal", l,
                        <<Pair("option_name", SubSeq(l, toks[3][1], toks[v][1] - 1), <<>>),
                          Pair("option_value", Span(l, toks, v + 1, n), <<>>)>>)>>)
             ELSE NoPair
        ELSE NoPair

\* One clause of a go line read at token k.
GoClause(l, toks, k) ==
    LET w == Word(l, toks, k)
        has == k + 1 <= Len(toks)
        t == IF has THEN Tok(l, toks, k + 1) ELSE <<>>
        Time(p) == Matched(<<Pair("go_time", t, <<p>>)>>, k + 2)
        Left(p) == Time(Pair("go_timeleft", t, <<p>>))
        Search(p) == Matched(<<Pair("go_search", t, <<p>>)>>, k + 2)
    IN  CASE w = KW.ponder -> Matched(<<Pair("go_time", w, <<Pair("go_ponder", w, <<>>)>>)>>, k + 1)
          [] w = KW.infinite -> Matched(<<Pair("go_time", w, <<Pair("go_infinite", w, <<>>)>>)>>, k + 1)
          [] w = KW.movetime /\ has /\ IsDigitsUpTo(t, 12) ->
                Time(NumClause("go_movetime", "milliseconds", t))
          [] w = KW.wtime /\ has /\ IsDigitsUpTo(t, 12) -> Left(NumClause("wtime", "milliseconds", t))
          [] w = KW.btime /\ has /\ IsDigitsUpTo(t, 12) -> Left(NumClause("btime", "milliseconds", t))
          [] w = KW.winc /\ has /\ IsDigitsUpTo(t, 12) -> Left(NumClause("winc", "milliseconds", t))
          [] w = KW.binc /\ has /\ IsDigitsUpTo(t, 12) -> Left(NumClause("binc", "milliseconds", t))
          [] w = KW.movestogo /\ has /\ IsDigitsUpTo(t, 3) -> Left(NumClause("movestogo", "digits3", t))
          [] w = KW.depth /\ has /\ IsDigitsUpTo(t, 3) -> Search(NumClause("depth", "digits3", t))
          [] w = KW.mate /\ has /\ IsDigitsUpTo(t, 3) -> Search(NumClause("mate", "digits3", t))
          [] w = KW.nodes /\ has /\ IsDigitsUpTo(t, 12) -> Search(NumClause("nodes", "digits12", t))
          [] w = KW.searchmoves /\ has /\ IsMoveText(t) ->
                LET ms == MovesFrom(l, toks, k + 1, <<>>)
                IN  Matched(<<Pair("go_search", w, <<Pair("searchmoves", w, ms.pairs)>>)>>, ms.next)
          [] OTHER -> NoMatch

RECURSIVE GoClauses(_, _, _, _)
GoClauses(l, toks, k, acc) ==
    IF k > Len(toks) THEN Matched(acc, k)
    ELSE LET then(c) == IF c.ok THEN GoClauses(l, toks, c.next, acc \o c.pairs)
                         ELSE NoMatch
         IN  then(GoClause(l, toks, k))

\* The clause rule under a go_time or go_search pair: for a time-left clause
\* the rule under go_timeleft.
GoClauseRule(p) ==
    IF p.inner[1].rule = "go_timeleft" THEN p.inner[1].inner[1].rule ELSE p.inner[1].rule

\* One time-control choice (ponder, infinite, movetime or a time-left group)
\* and no clause twice.
GoShapeOk(pairs) ==
    LET n == Len(pairs)
        choice(i) == IF pairs[i].rule = "go_time" THEN pairs[i].inner[1].rule ELSE "none"
    IN  /\ \A i, j \in 1..n : i # j => GoClauseRule(pairs[i]) # GoClauseRule(pairs[j])
        /\ Cardinality({choice(i) : i \in 1..n} \ {"none"}) <= 1

GoRule(l, toks) ==
    LET go(c) == IF c.ok /\ GoShapeOk(c.pairs) THEN Pair("go", l, c.pairs) ELSE NoPair
    IN  go(GoClauses(l, toks, 2, <<>>))

\* The clauses of a score attribute from token k on: cp <i64>, mate <i64>,
\* lowerbound, upperbound.
RECURSIVE ScoreClauses(_, _, _, _)
ScoreClauses(l, toks, k, acc) ==
    IF k > Len(toks) THEN Matched(acc, k)
    ELSE LET w == Word(l, toks, k)
             has == k + 1 <= Len(toks)
             t == IF has THEN Tok(l, toks, k + 1) ELSE <<>>
         IN  CASE w = KW.cp /\ has /\ IsI64Text(t) ->
                    ScoreClauses(l, toks, k + 2, Append(acc, NumClause("info_cp", "i64", t)))
               [] w = KW.mate /\ has /\ IsI64Text(t) ->
                    ScoreClauses(l, toks, k + 2, Append(acc, NumClause("info_mate", "i64", t)))
               [] w = KW.lowerbound ->
                    ScoreClauses(l, toks, k + 1, Append(acc, Pair("info_lowerbound", w, <<>>)))
               [] w = KW.upperbound ->
                    ScoreClauses(l, toks, k + 1, Append(acc, Pair("info_upperbound", w, <<>>)))
               [] OTHER -> Matched(acc, k)

\* One attribute of an info line read at token k.
InfoAttribute(l, toks, k) ==
    LET w == Word(l, toks, k)
        n == Len(toks)
        has == k + 1 <= n
        t == IF has THEN Tok(l, toks, k + 1) ELSE <<>>
        Attr(p, next) == Matched(<<Pair("info_attribute", p.str, <<p>>)>>, next)
        Num(rule, numrule, max) ==
            IF has /\ IsDigitsUpTo(t, max) THEN Attr(NumClause(rule, numrule, t), k + 2)
            ELSE NoMatch
        rest == Pair("info_string_string", Span(l, toks, k + 1, n), <<>>)
    IN  CASE w = KW.depth -> Num("info_depth", "digits3", 3)
          [] w = KW.seldepth -> Num("info_seldepth", "digits3", 3)
          [] w = KW.time -> Num("info_time", "digits12", 12)
          [] w = KW.nodes -> Num("info_nodes", "digits12", 12)
          [] w = KW.currmovenum -> Num("info_currmovenum", "digits12", 12)
          [] w = KW.hashfull -> Num("info_hashfull", "digits12", 12)
          [] w = KW.nps -> Num("info_nps", "digits12", 12)
          [] w = KW.tbhits -> Num("info_tbhits", "digits12", 12)
          [] w = KW.sbhits -> Num("info_sbhits", "digits12", 12)
          [] w = KW.cpuload -> Num("info_cpuload", "digits12", 12)
          [] w = KW.multipv -> Num("info_multipv", "digits12", 12)
          [] w = KW.score ->
                LET sc == ScoreClauses(l, toks, k + 1, <<>>)
                IN  IF Len(sc.pairs) > 0
                    THEN Attr(Pair("info_score", w, sc.pairs), sc.next)
                    ELSE NoMatch
          [] w = KW.currmove ->
                IF has /\ IsMoveText(t)
                THEN Attr(Pair("info_currmove", t, <<MovePair(t)>>), k + 2)
                ELSE NoMatch
          [] w = KW.pv ->
                LET ms == MovesFrom(l, toks, k + 1, <<>>)
                IN  Attr(Pair("info_pv", w, ms.pairs), ms.next)
          [] w = KW.refutation ->
                LET ms == MovesFrom(l, toks, k + 1, <<>>)
                IN  Attr(Pair("info_refutation", w, ms.pairs), ms.next)
          [] w = KW.currline ->
                LET nr == has /\ IsDigitsUpTo(t, 3)
                    ms == MovesFrom(l, toks, IF nr THEN k + 2 ELSE k + 1, <<>>)
                IN  Attr(Pair("info_currline", w,
                              (IF nr THEN <<NumClause("info_cpunr", "digits3", t)>> ELSE <<>>)
                              \o ms.pairs), ms.next)
          [] w = KW.string ->
                IF has THEN Attr(Pair("info_string", w, <<rest>>), n + 1) ELSE NoMatch
          [] OTHER ->
                IF has
                THEN Attr(Pair("info_any", w, <<Pair("token", Tok(l, toks, k), <<>>), rest>>), n + 1)
                ELSE NoMatch

RECURSIVE InfoAttributes(_, _, _, _)
InfoAttributes(l, toks, k, acc) ==
    IF k > Len(toks) THEN Matched(acc, k)
    ELSE LET then(a) == IF a.ok THEN InfoAttributes(l, toks, a.next, acc \o a.pairs)
                         ELSE NoMatch
         IN  then(InfoAttribute(l, toks, k))

InfoRule(l, toks) ==
    LET info(a) == IF a.ok THEN Pair("info", l, a.pairs) ELSE NoPair
    IN  info(InfoAttributes(l, toks, 2, <<>>))

\* id name <text> | id author <text>
IdRule(l, toks) ==
    LET n == Len(toks)
        text == Pair("id_text", Span(l, toks, 3, n), <<>>)
    IN  IF n >= 3 /\ IsKw(l, toks, 2, KW.name)
        THEN Pair("id", l, <<Pair("id_name", l, <<text>>)>>)
        ELSE IF n >= 3 /\ IsKw(l, toks, 2, KW.author)
        THEN Pair("id", l, <<Pair("id_author", l, <<text>>)>>)
        ELSE NoPair

\* bestmove <move> [ponder <move>]
BestMoveRule(l, toks) ==
    LET n == Len(toks)
    IN  IF n = 2 /\ IsMoveText(Tok(l, toks, 2))
        THEN Pair("bestmove", l, <<MovePair(Tok(l, toks, 2))>>)
        ELSE IF n = 4 /\ IsMoveText(Tok(l, toks, 2)) /\ IsKw(l, toks, 3, KW.ponder)
                /\ IsMoveText(Tok(l, toks, 4))
        THEN Pair("bestmove", l,
                  <<MovePair(Tok(l, toks, 2)),
                    Pair("bestmove_ponder", l, <<MovePair(Tok(l, toks, 4))>>)>>)
        ELSE NoPair

\* copyprotection | registration, with a state: checking, ok or error.
ProtectionRule(l, toks, rule) ==
    LET w == Word(l, toks, 2)
    IN  IF Len(toks) = 2 /\ w \in {KW.checking, KW.ok, KW.error}
        THEN Pair(rule, l,
                  <<Pair(CASE w = KW.checking -> "protection_checking"
                           [] w = KW.ok -> "protection_ok"
                           [] OTHER -> "protection_error", w, <<>>)>>)
        ELSE NoPair

\* register later | register name <name...> code <code...>
RegisterRule(l, toks) ==
    LET n == Len(toks)
        c == FindKw(l, toks, 4, KW.code)
    IN  IF n = 2 /\ IsKw(l, toks, 2, KW.later)
        THEN Pair("register", l, <<Pair("register_later", Tok(l, toks, 2), <<>>)>>)
        ELSE IF n >= 5 /\ IsKw(l, toks, 2, KW.name) /\ c > 0 /\ c < n
        THEN Pair("register", l,
                  <<Pair("register_nc", l,
                      <<Pair("register_name", Span(l, toks, 3, c - 1), <<>>),
                        Pair("register_code", Span(l, toks, c + 1, n), <<>>)>>)>>)
        ELSE NoPair

\* The first token from k on that is one of the keywords kws, or the place
\* after the last token.
RECURSIVE FindClause(_, _, _, _)
FindClause(l, toks, k, kws) ==
    IF k > Len(toks) THEN k
    ELSE IF Word(l, toks, k) \in kws THEN k
    ELSE FindClause(l, toks, k + 1, kws)

\* The clauses of an option line from token k on, in the order default, min,
\* max, var*: `stage` is the place in that order reached so far.  A default
\* is the text up to the next clause, a min and a max an i64, a var the text
\* up to the next var.
RECURSIVE OptionClauses(_, _, _, _, _)
OptionClauses(l, toks, k, stage, acc) ==
    LET n == Len(toks)
        w == Word(l, toks, k)
        d == FindClause(l, toks, k + 1, {KW.min, KW.max, KW.var})
        v == FindClause(l, toks, k + 1, {KW.var})
    IN  IF k > n THEN Matched(acc, k)
        ELSE CASE w = KW.default /\ stage < 1 /\ d > k + 1 ->
                    OptionClauses(l, toks, d, 1,
                        Append(acc, Pair("option_default", Span(l, toks, k + 1, d - 1), <<>>)))
               [] w = KW.min /\ stage < 2 /\ k < n /\ IsI64Text(Tok(l, toks, k + 1)) ->
                    OptionClauses(l, toks, k + 2, 2,
                        Append(acc, NumClause("option_min", "i64", Tok(l, toks, k + 1))))
               [] w = KW.max /\ stage < 3 /\ k < n /\ IsI64Text(Tok(l, toks, k + 1)) ->
                    OptionClauses(l, toks, k + 2, 3,
                        Append(acc, NumClause("option_max", "i64", Tok(l, toks, k + 1))))
               [] w = KW.var /\ v > k + 1 ->
                    OptionClauses(l, toks, v, 4,
                        Append(acc, Pair("option_var", Span(l, toks, k + 1, v - 1), <<>>)))
               [] OTHER -> NoMatch

\* option name <name...> type <type> [default <d>] [min <n>] [max <n>] [var <v>]*
OptionRule(l, toks) ==
    LET n == Len(toks)
        t == FindClause(l, toks, 4, {KW.type})
        ty == IF t < n THEN Word(l, toks, t + 1) ELSE <<>>
        rule == CASE ty = KW.check -> "option_check"
                  [] ty = KW.spin -> "option_spin"
                  [] ty = KW.combo -> "option_combo"
                  [] ty = KW.string -> "option_string"
                  [] ty = KW.button -> "option_button"
                  [] OTHER -> "none"
        option(c) ==
            IF c.ok
            THEN Pair("option", l,
                      <<Pair("option_name2", Span(l, toks, 3, t - 1), <<>>),
                        Pair("option_type", ty, <<Pair(rule, ty, <<>>)>>)>> \o c.pairs)
            ELSE NoPair
    IN  IF IsKw(l, toks, 2, KW.name) /\ t < n /\ rule # "none"
        THEN option(OptionClauses(l, toks, t + 2, 0, <<>>))
        ELSE NoPair

\* position (startpos | fen <fen...>) [moves <move>*]; the fen is the text up
\* to the moves clause, or to the end of the line.
PositionRule(l, toks) ==
    LET n == Len(toks)
        m == FindKw(l, toks, 3, KW.moves)
        last == IF m = 0 THEN n ELSE m - 1
        ms == IF m = 0 THEN Matched(<<>>, n + 1) ELSE MovesFrom(l, toks, m + 1, <<>>)
    IN  IF n >= 2 /\ ms.next = n + 1
        THEN IF IsKw(l, toks, 2, KW.startpos) /\ last = 2
             THEN Pair("position", l, <<Pair("startpos", Tok(l, toks, 2), <<>>)>> \o ms.pairs)
             ELSE IF IsKw(l, toks, 2, KW.fen) /\ last >= 3
             THEN Pair("position", l, <<Pair("fen", Span(l, toks, 3, last), <<>>)>> \o ms.pairs)
             ELSE NoPair
        ELSE NoPair

\* command: the rule of the line's first keyword, matched case-blind.
Command(l) ==
    LET toks == Tokens(l)
        w == Word(l, toks, 1)
    IN  CASE Len(toks) = 0 -> NoPair
          [] w = KW.uci -> AtomicRule(l, toks, "uci")
          [] w = KW.debug -> DebugRule(l, toks)
          [] w = KW.isready -> AtomicRule(l, toks, "isready")
          [] w = KW.setoption -> SetOptionRule(l, toks)
          [] w = KW.register -> RegisterRule(l, toks)
          [] w = KW.ucinewgame -> AtomicRule(l, toks, "ucinewgame")
          [] w = KW.stop -> AtomicRule(l, toks, "stop")
          [] w = KW.quit -> AtomicRule(l, toks, "quit")
          [] w = KW.ponderhit -> AtomicRule(l, toks, "ponderhit")
          [] w = KW.position -> PositionRule(l, toks)
          [] w = KW.go -> GoRule(l, toks)
          [] w = KW.id -> IdRule(l, toks)
          [] w = KW.uciok -> AtomicRule(l, toks, "uciok")
          [] w = KW.readyok -> AtomicRule(l, toks, "readyok")
          [] w = KW.bestmove -> BestMoveRule(l, toks)
          [] w = KW.copyprotection -> ProtectionRule(l, toks, "copyprotection")
          [] w = KW.registration -> ProtectionRule(l, toks, "registration")
          [] w = KW.info -> InfoRule(l, toks)
          [] w = KW.option -> OptionRule(l, toks)
          [] OTHER -> NoPair

IsBlankLine(l) == Len(Tokens(l)) = 0

\* What UciParser::parse gives: the pairs of the commands, or an error that
\* tells the line of the violation.
ParseOk(pairs) == [ok |-> TRUE, pairs |-> pairs, error |-> None]
ParseErr(line) == [ok |-> FALSE, pairs |-> <<>>, error |-> Some([line |-> line])]

\* commands (strict): every line is blank or a command.
\* commands_ignore_unknown: a line that is no command is skipped.
RECURSIVE CommandLines(_, _, _, _)
CommandLines(ls, i, strict, acc) ==
    IF i > Len(ls) THEN ParseOk(acc)
    ELSE IF IsBlankLine(ls[i]) THEN CommandLines(ls, i + 1, strict, acc)
    ELSE LET line(p) ==
                 IF p.rule # "none" THEN CommandLines(ls, i + 1, strict, Append(acc, p))
                 ELSE IF strict THEN ParseErr(i)
                 ELSE CommandLines(ls, i + 1, strict, acc)
         IN  line(Command(ls[i]))

\* single_message_per_line: the first line, blank or a command.
SingleMessagePerLine(ls) ==
    IF Len(ls) = 0 \/ IsBlankLine(ls[1]) THEN ParseOk(<<>>)
    ELSE LET line(p) == IF p.rule # "none" THEN ParseOk(<<p>>) ELSE ParseErr(1)
         IN  line(Command(ls[1]))

UciParser_parse(top_rule, s) ==
    LET parse_lines(ls) ==
            IF top_rule = "single_message_per_line" THEN SingleMessagePerLine(ls)
            ELSE CommandLines(ls, 1, top_rule = "commands", <<>>)
    IN  parse_lines(Lines(s))

(***************************************************************************)
(* parser.rs: the conversions of the builder.                               *)
(*                                                                          *)
(* str::parse gives a Result; the builder unwraps it, and an Err aborts the *)
(* call (a panic).  A Result is [ok, v].                                    *)
(***************************************************************************)
Ok(v) == [ok |-> TRUE, v |-> v]
Err == [ok |-> FALSE, v |-> 0]

\* The digits of a run without its leading zeros (one digit is kept).
RECURSIVE Significant(_)
Significant(t) == IF Len(t) > 1 /\ t[1] = "0" THEN Significant(Tail(t)) ELSE t

\* str::parse::<u8>, ::<u64>, ::<i64> on the texts the grammar lets through.
\* More than nine significant digits are beyond the integers of the model; none
\* of its inputs is that long.
str_parse_u8(t) ==
    IF AllDigits(t) /\ Len(Significant(t)) <= 3 /\ DigitsVal(Significant(t)) <= 255
    THEN Ok(DigitsVal(Significant(t)))
    ELSE Err

str_parse_u64(t) ==
    IF AllDigits(t) /\ Len(Significant(t)) <= 9 THEN Ok(DigitsVal(Significant(t))) ELSE Err

str_parse_i64_or_zero(t) ==
    IF Len(t) > 1 /\ t[1] = "-" /\ AllDigits(Tail(t)) /\ Len(Significant(Tail(t))) <= 9
    THEN Ok(0 - DigitsVal(Significant(Tail(t))))
    ELSE IF AllDigits(t) /\ Len(Significant(t)) <= 9 THEN Ok(DigitsVal(Significant(t)))
    ELSE Ok(0)

str_parse_i64(t) ==
    IF Len(t) > 1 /\ t[1] = "-" /\ AllDigits(Tail(t)) /\ Len(Significant(Tail(t))) <= 9
    THEN Ok(0 - DigitsVal(Significant(Tail(t))))
    ELSE IF Len(t) > 1 /\ t[1] = "+" THEN str_parse_u64(Tail(t))
    ELSE str_parse_u64(t)

\* The casts of the builder: `as u16`, `as i8` and `as i32` keep the low bits.
\* Every integer of the model is within i32.
as_u16(v) == v % 65536
as_i8(v) == ((v + 128) % 256) - 128
as_i32(v) == v

\* The first pair of `pairs` whose rule is `rule`, or 0.
RECURSIVE FirstOf(_, _, _)
FirstOf(pairs, rule, i) ==
    IF i > Len(pairs) THEN 0
    ELSE IF pairs[i].rule = rule THEN i
    ELSE FirstOf(pairs, rule, i + 1)

\* parse_u8, parse_u64, parse_i64, parse_milliseconds: the number under the
\* first sub-pair of the rule; 0 without such a sub-pair.  The Result is the
\* one the function unwraps.
parse_u8(pair, rule) ==
    LET i == FirstOf(pair.inner, rule, 1)
    IN  IF i = 0 THEN Ok(0) ELSE str_parse_u8(pair.inner[i].str)

parse_u64(pair, rule) ==
    LET i == FirstOf(pair.inner, rule, 1)
    IN  IF i = 0 THEN Ok(0) ELSE str_parse_u64(pair.inner[i].str)

parse_i64(pair, rule) ==
    LET i == FirstOf(pair.inner, rule, 1)
    IN  IF i = 0 THEN Ok(0) ELSE str_parse_i64(pair.inner[i].str)

parse_milliseconds(pair) ==
    LET i == FirstOf(pair.inner, "milliseconds", 1)
    IN  IF i = 0 THEN Ok(0) ELSE str_parse_u64(pair.inner[i].str)

\* UciPiece::from_str
UciPiece_from_str(s) ==
    LET c == to_ascii_lowercase(s)
    IN  CASE c = <<"n">> -> Ok("Knight")
          [] c = <<"p">> -> Ok("Pawn")
          [] c = <<"b">> -> Ok("Bishop")
          [] c = <<"r">> -> Ok("Rook")
          [] c = <<"k">> -> Ok("King")
          [] c = <<"q">> -> Ok("Queen")
          [] OTHER -> [ok |-> FALSE, v |-> "Pawn"]

\* as_char with the rook's letter taken for the bishop's.
as_char_rook_as_bishop(p) ==
    CASE p = "Pawn" -> None
      [] p = "Knight" -> Some("n")
      [] p = "Bishop" -> Some("b")
      [] p = "Rook" -> Some("b")
      [] p = "Queen" -> Some("q")
      [] p = "King" -> Some("k")

\* UciPiece::as_char
UciPiece_as_char(p) ==
    CASE p = "Pawn" -> None
      [] p = "Knight" -> Some("n")
      [] p = "Bishop" -> Some("b")
      [] p = "Rook" -> Some("r")
      [] p = "Queen" -> Some("q")
      [] p = "King" -> Some("k")

UciSquare(file, rank) == [file |-> file, rank |-> rank]
UciSquare_default == UciSquare("NUL", 0)
UciMove(from, to, promotion) == [from |-> from, to |-> to, promotion |-> promotion]

\* The last pair of `pairs` whose rule is `rule`, or 0: what a loop that
\* assigns on every match ends with.
RECURSIVE LastOf(_, _, _)
LastOf(pairs, rule, i) ==
    IF i = 0 THEN 0
    ELSE IF pairs[i].rule = rule THEN i
    ELSE LastOf(pairs, rule, i - 1)

\* parse_square: the file letter and the rank digit of a square pair.
parse_square(sq_pair) ==
    LET f == LastOf(sq_pair.inner, "file", Len(sq_pair.inner))
        r == LastOf(sq_pair.inner, "rank", Len(sq_pair.inner))
    IN  UciSquare(IF f = 0 THEN "NUL" ELSE sq_pair.inner[f].str[1],
                  IF r = 0 THEN 0 ELSE str_parse_u8(sq_pair.inner[r].str).v)

\* parse_a_move
parse_a_move(sp) ==
    LET f == LastOf(sp.inner, "from_sq", Len(sp.inner))
        t == LastOf(sp.inner, "to_sq", Len(sp.inner))
        p == LastOf(sp.inner, "promotion", Len(sp.inner))
    IN  UciMove(IF f = 0 THEN UciSquare_default ELSE parse_square(sp.inner[f].inner[1]),
                IF t = 0 THEN UciSquare_default ELSE parse_square(sp.inner[t].inner[1]),
                IF p = 0 THEN None ELSE Some(UciPiece_from_str(sp.inner[p].str).v))

\* parse_a_move aborts when the promotion letter is no piece.
parse_a_move_panics(sp) ==
    \E p \in 1..Len(sp.inner) :
        sp.inner[p].rule = "promotion" /\ ~UciPiece_from_str(sp.inner[p].str).ok

\* The moves of the a_move pairs among `pairs`, in order.
RECURSIVE parse_moves(_, _)
parse_moves(pairs, i) ==
    IF i > Len(pairs) THEN <<>>
    ELSE IF pairs[i].rule = "a_move"
         THEN <<parse_a_move(pairs[i])>> \o parse_moves(pairs, i + 1)
         ELSE parse_moves(pairs, i + 1)

parse_moves_panic(pairs) ==
    \E i \in 1..Len(pairs) : pairs[i].rule = "a_move" /\ parse_a_move_panics(pairs[i])

(***************************************************************************)
(* parser.rs, do_parse_uci: one message per top-level pair.                 *)
(*                                                                          *)
(* A built message is [panic, msg]; panic says that an unwrap under the     *)
(* builder failed, and the call never returns.  Messages are records        *)
(* tagged by `type`; a Duration is its number of milliseconds.              *)
(***************************************************************************)
Built(m) == [panic |-> FALSE, msg |-> m]
Aborted == [panic |-> TRUE, msg |-> [type |-> "none"]]

\* The sub-pairs of those of `pairs` whose rule is in `rules`, in order.
RECURSIVE InnerOf(_, _, _)
InnerOf(pairs, rules, i) ==
    IF i > Len(pairs) THEN <<>>
    ELSE (IF pairs[i].rule \in rules THEN pairs[i].inner ELSE <<>>)
         \o InnerOf(pairs, rules, i + 1)

build_debug_off(pair) == Built([type |-> "Debug", on |-> FALSE])

build_debug(pair) ==
    IF Len(pair.inner) > 0
    THEN Built([type |-> "Debug", on |-> eq_ignore_ascii_case(pair.inner[1].str, KW.on)])
    ELSE Built([type |-> "Debug", on |-> FALSE])

build_setoption(pair) ==
    LET spi == InnerOf(pair.inner, {"option_internal"}, 1)
        n == LastOf(spi, "option_name", Len(spi))
        v == LastOf(spi, "option_value", Len(spi))
        name == IF n = 0 THEN <<>> ELSE trim(spi[n].str)
        value == IF v = 0 THEN <<>> ELSE spi[v].str
    IN  Built([type |-> "SetOption", name |-> name,
               value |-> IF value # <<>> THEN Some(value) ELSE None])

\* UciMessage::register_later, UciMessage::register_code (uci.rs)
register_later == [type |-> "Register", later |-> TRUE, name |-> None, code |-> None]
register_code_only(name, code) ==
    [type |-> "Register", later |-> FALSE, name |-> None, code |-> Some(code)]
register_code(name, code) ==
    [type |-> "Register", later |-> FALSE, name |-> Some(name), code |-> Some(code)]

build_register_swapped(pair) ==
    LET sp == pair.inner[1]
    IN  IF sp.rule = "register_later" THEN Built(register_later)
        ELSE Built(register_code(sp.inner[Len(sp.inner)].str, sp.inner[1].str))

\* The register builder returns at the first register_code pair, with the
\* name seen before it.
build_register(pair) ==
    LET sp == pair.inner[1]
        c == FirstOf(sp.inner, "register_code", 1)
        n == LastOf(sp.inner, "register_name", IF c = 0 THEN 0 ELSE c - 1)
    IN  IF sp.rule = "register_later" THEN Built(register_later)
        ELSE IF c = 0 THEN Aborted
        ELSE Built(register_code(IF n = 0 THEN <<>> ELSE sp.inner[n].str, sp.inner[c].str))

build_position_startpos(pair) ==
    LET f == LastOf(pair.inner, "fen", Len(pair.inner))
    IN  IF parse_moves_panic(pair.inner) THEN Aborted
        ELSE Built([type |-> "Position",
                    startpos |-> TRUE,
                    fen |-> IF f = 0 THEN None ELSE Some(pair.inner[f].str),
                    moves |-> parse_moves(pair.inner, 1)])

build_position(pair) ==
    LET f == LastOf(pair.inner, "fen", Len(pair.inner))
    IN  IF parse_moves_panic(pair.inner) THEN Aborted
        ELSE Built([type |-> "Position",
                    startpos |-> FirstOf(pair.inner, "startpos", 1) # 0,
                    fen |-> IF f = 0 THEN None ELSE Some(pair.inner[f].str),
                    moves |-> parse_moves(pair.inner, 1)])

\* UciSearchControl (uci.rs)
UciSearchControl(search_moves, mate, depth, nodes) ==
    [search_moves |-> search_moves, mate |-> mate, depth |-> depth, nodes |-> nodes]
UciSearchControl_default == UciSearchControl(<<>>, None, None, None)
\* is_empty as it would be if no search control counted as empty.
never_empty(sc) == FALSE

UciSearchControl_is_empty(sc) ==
    /\ Len(sc.search_moves) = 0
    /\ is_none(sc.mate)
    /\ is_none(sc.depth)
    /\ is_none(sc.nodes)

\* UciTimeControl (uci.rs)
Ponder == [tc |-> "Ponder"]
Infinite == [tc |-> "Infinite"]
MoveTime(ms) == [tc |-> "MoveTime", ms |-> ms]
TimeLeft(wt, bt, wi, bi, mtg) ==
    [tc |-> "TimeLeft", white_time |-> wt, black_time |-> bt,
     white_increment |-> wi, black_increment |-> bi, moves_to_go |-> mtg]

UciGo(tc, sc) == [type |-> "Go", time_control |-> tc, search_control |-> sc]

\* The conversion the code calls on a number pair, by its name.
Convert(conv, p) ==
    CASE conv = "milliseconds" -> parse_milliseconds(p)
      [] conv = "u8 digits3" -> parse_u8(p, "digits3")
      [] conv = "u64 digits12" -> parse_u64(p, "digits12")
      [] conv = "u64 digits3" -> parse_u64(p, "digits3")
      [] conv = "i64" -> parse_i64(p, "i64")

NumBeforeMovesToGo(pairs, rule, conv) ==
    LET i == LastOf(pairs, rule, Len(pairs))
    IN  IF i = 0 \/ \E j \in 1..(i - 1) : pairs[j].rule = "movestogo" THEN None
        ELSE Some(Convert(conv, pairs[i]).v)

\* The last pair of `pairs` with the rule, through the conversion `conv`:
\* None without such a pair.
LastNum(pairs, rule, conv) ==
    LET i == LastOf(pairs, rule, Len(pairs))
    IN  IF i = 0 THEN None ELSE Some(Convert(conv, pairs[i]).v)

\* Some pair of `pairs` with the rule fails the conversion.
AnyFails(pairs, rule, conv) ==
    \E i \in 1..Len(pairs) : pairs[i].rule = rule /\ ~Convert(conv, pairs[i]).ok

build_go(pair) ==
    LET time == InnerOf(pair.inner, {"go_time"}, 1)
        left == InnerOf(time, {"go_timeleft"}, 1)
        srch == InnerOf(pair.inner, {"go_search"}, 1)
        tl == FirstOf(time, "go_timeleft", 1) # 0
        \* the last of ponder, infinite and movetime decides, before tl
        RECURSIVE LastChoice(_)
        LastChoice(i) ==
            IF i = 0 THEN None
            ELSE CASE time[i].rule = "go_ponder" -> Some(Ponder)
                   [] time[i].rule = "go_infinite" -> Some(Infinite)
                   [] time[i].rule = "go_movetime" ->
                          Some(MoveTime(parse_milliseconds(time[i]).v))
                   [] OTHER -> LastChoice(i - 1)
        search == UciSearchControl(
                      parse_moves(InnerOf(srch, {"searchmoves"}, 1), 1),
                      LastNum(srch, "mate", "u8 digits3"),
                      LastNum(srch, "depth", "u8 digits3"),
                      LastNum(srch, "nodes", "u64 digits12"))
        time_control ==
            IF tl
            THEN Some(TimeLeft(LastNum(left, "wtime", "milliseconds"),
                               LastNum(left, "btime", "milliseconds"),
                               LastNum(left, "winc", "milliseconds"),
                               LastNum(left, "binc", "milliseconds"),
                               LastNum(left, "movestogo", "u8 digits3")))
            ELSE LastChoice(Len(time))
        panics ==
            \/ AnyFails(time, "go_movetime", "milliseconds")
            \/ \E r \in {"wtime", "btime", "winc", "binc"} :
                   AnyFails(left, r, "milliseconds")
            \/ AnyFails(left, "movestogo", "u8 digits3")
            \/ AnyFails(srch, "depth", "u8 digits3")
            \/ AnyFails(srch, "mate", "u8 digits3")
            \/ AnyFails(srch, "nodes", "u64 digits12")
            \/ parse_moves_panic(InnerOf(srch, {"searchmoves"}, 1))
    IN  IF panics THEN Aborted
        ELSE Built(UciGo(time_control,
                         IF UciSearchControl_is_empty(search) THEN None ELSE Some(search)))

\* parse_id_text
parse_id_text(id_pair, rule) ==
    LET t == FirstOf(id_pair.inner, "id_text", 1)
    IN  IF t = 0 THEN Aborted
        ELSE IF rule = "id_name"
        THEN Built([type |-> "Id", name |-> Some(id_pair.inner[t].str), author |-> None])
        ELSE Built([type |-> "Id", name |-> None, author |-> Some(id_pair.inner[t].str)])

build_id(pair) ==
    LET RECURSIVE FirstId(_)
        FirstId(i) ==
            IF i > Len(pair.inner) THEN Aborted
            ELSE IF pair.inner[i].rule \in {"id_name", "id_author"}
                 THEN parse_id_text(pair.inner[i], pair.inner[i].rule)
                 ELSE FirstId(i + 1)
    IN  FirstId(1)

build_bestmove(pair) ==
    LET b == LastOf(pair.inner, "a_move", Len(pair.inner))
        pm == InnerOf(pair.inner, {"bestmove_ponder"}, 1)
        p == LastOf(pm, "a_move", Len(pm))
    IN  IF b = 0 \/ parse_moves_panic(pair.inner) \/ parse_moves_panic(pm) THEN Aborted
        ELSE Built([type |-> "BestMove",
                    best_move |-> parse_a_move(pair.inner[b]),
                    ponder |-> IF p = 0 THEN None ELSE Some(parse_a_move(pm[p]))])

build_protection(pair) ==
    LET RECURSIVE LastState(_)
        LastState(i) ==
            IF i = 0 THEN None
            ELSE CASE pair.inner[i].rule = "protection_checking" -> Some("Checking")
                   [] pair.inner[i].rule = "protection_ok" -> Some("Ok")
                   [] pair.inner[i].rule = "protection_error" -> Some("Error")
                   [] OTHER -> LastState(i - 1)
        ps == LastState(Len(pair.inner))
    IN  IF is_none(ps) THEN Aborted
        ELSE IF pair.rule = "copyprotection"
        THEN Built([type |-> "CopyProtection", state |-> unwrap(ps)])
        ELSE Built([type |-> "Registration", state |-> unwrap(ps)])

\* UciInfoAttribute (uci.rs)
InfoNum(a, v) == [attr |-> a, v |-> v]
InfoMoves(a, mv) == [attr |-> a, moves |-> mv]
InfoScore(cp, mate, lb, ub) ==
    [attr |-> "Score", cp |-> cp, mate |-> mate, lower_bound |-> lb, upper_bound |-> ub]
InfoCurrLine(cpu_nr, line) == [attr |-> "CurrLine", cpu_nr |-> cpu_nr, line |-> line]
InfoString(s) == [attr |-> "String", s |-> s]
InfoAnyName(t, s) == [attr |-> "Any", t |-> t, s |-> <<>>]
InfoAny(t, s) == [attr |-> "Any", t |-> t, s |-> s]

\* The attributes one sub-pair of an info_attribute pair pushes, with
\* `more` saying that the loop goes on to the next sub-pair (only the score
\* arm has no break).
info_arm(spi) ==
    LET r == spi.rule
        One(a, fails) == [panic |-> fails, attrs |-> <<a>>, more |-> FALSE]
        U8(a) == One(InfoNum(a, parse_u8(spi, "digits3").v), ~parse_u8(spi, "digits3").ok)
        U64(a) == One(InfoNum(a, parse_u64(spi, "digits12").v),
                      ~parse_u64(spi, "digits12").ok)
        U16(a) == One(InfoNum(a, as_u16(parse_u64(spi, "digits12").v)),
                      ~parse_u64(spi, "digits12").ok)
        Mv(a) == One(InfoMoves(a, parse_moves(spi.inner, 1)), parse_moves_panic(spi.inner))
        s == FirstOf(spi.inner, "info_string_string", 1)
        m == FirstOf(spi.inner, "a_move", 1)
        ls == LastOf(spi.inner, "info_string_string", Len(spi.inner))
        lt == LastOf(spi.inner, "token", Len(spi.inner))
    IN  CASE r = "info_depth" -> U8("Depth")
          [] r = "info_seldepth" -> U8("SelDepth")
          [] r = "info_time" -> U64("Time")
          [] r = "info_nodes" -> U64("Nodes")
          [] r = "info_currmovenum" -> U16("CurrMoveNum")
          [] r = "info_hashfull" -> U16("HashFull")
          [] r = "info_nps" -> U64("Nps")
          [] r = "info_tbhits" -> U64("TbHits")
          [] r = "info_sbhits" -> U64("SbHits")
          [] r = "info_cpuload" -> U16("CpuLoad")
          [] r = "info_multipv" -> U16("MultiPv")
          [] r = "info_pv" -> Mv("Pv")
          [] r = "info_refutation" -> Mv("Refutation")
          [] r = "info_currline" ->
                 One(InfoCurrLine(
                         IF LastOf(spi.inner, "info_cpunr", Len(spi.inner)) = 0 THEN None
                         ELSE Some(as_u16(LastNum(spi.inner, "info_cpunr",
                                                  "u64 digits3")[1])),
                         parse_moves(spi.inner, 1)),
                     \/ parse_moves_panic(spi.inner)
                     \/ AnyFails(spi.inner, "info_cpunr", "u64 digits3"))
          [] r = "info_string" ->
                 [panic |-> FALSE,
                  attrs |-> IF s = 0 THEN <<>> ELSE <<InfoString(spi.inner[s].str)>>,
                  more |-> FALSE]
          [] r = "info_currmove" ->
                 [panic |-> m # 0 /\ parse_a_move_panics(spi.inner[m]),
                  attrs |-> IF m = 0 THEN <<>>
                            ELSE <<[attr |-> "CurrMove", mv |-> parse_a_move(spi.inner[m])]>>,
                  more |-> FALSE]
          [] r = "info_score" ->
                 [panic |-> \/ AnyFails(spi.inner, "info_cp", "i64")
                            \/ AnyFails(spi.inner, "info_mate", "i64"),
                  attrs |-> <<InfoScore(
                      IF LastOf(spi.inner, "info_cp", Len(spi.inner)) = 0 THEN None
                      ELSE Some(as_i32(LastNum(spi.inner, "info_cp", "i64")[1])),
                      IF LastOf(spi.inner, "info_mate", Len(spi.inner)) = 0 THEN None
                      ELSE Some(as_i8(LastNum(spi.inner, "info_mate", "i64")[1])),
                      IF FirstOf(spi.inner, "info_lowerbound", 1) = 0 THEN None
                      ELSE Some(TRUE),
                      IF FirstOf(spi.inner, "info_upperbound", 1) = 0 THEN None
                      ELSE Some(TRUE))>>,
                  more |-> TRUE]
          [] r = "info_any" ->
                 IF ls = 0 \/ lt = 0 THEN [panic |-> TRUE, attrs |-> <<>>, more |-> FALSE]
                 ELSE One(InfoAny(spi.inner[lt].str, spi.inner[ls].str), FALSE)
          [] OTHER -> [panic |-> TRUE, attrs |-> <<>>, more |-> FALSE]

\* The attributes of one info_attribute pair: its sub-pairs up to the first
\* break.
RECURSIVE info_attribute(_, _)
info_attribute(inner, i) ==
    IF i > Len(inner) THEN [panic |-> FALSE, attrs |-> <<>>]
    ELSE LET push(a, rest) ==
                 IF a.panic THEN [panic |-> TRUE, attrs |-> <<>>]
                 ELSE IF ~a.more THEN [panic |-> FALSE, attrs |-> a.attrs]
                 ELSE [panic |-> rest.panic, attrs |-> a.attrs \o rest.attrs]
         IN  push(info_arm(inner[i]), info_attribute(inner, i + 1))

RECURSIVE info_attributes_reversed(_, _)
info_attributes_reversed(pairs, i) ==
    IF i > Len(pairs) THEN [panic |-> FALSE, attrs |-> <<>>]
    ELSE LET push(a, rest) ==
                 [panic |-> a.panic \/ rest.panic, attrs |-> rest.attrs \o a.attrs]
         IN  push(IF pairs[i].rule = "info_attribute"
                  THEN info_attribute(pairs[i].inner, 1)
                  ELSE [panic |-> TRUE, attrs |-> <<>>],
                  info_attributes_reversed(pairs, i + 1))

RECURSIVE info_attributes(_, _)
info_attributes(pairs, i) ==
    IF i > Len(pairs) THEN [panic |-> FALSE, attrs |-> <<>>]
    ELSE LET push(a, rest) ==
                 [panic |-> a.panic \/ rest.panic, attrs |-> a.attrs \o rest.attrs]
         IN  push(IF pairs[i].rule = "info_attribute"
                  THEN info_attribute(pairs[i].inner, 1)
                  ELSE [panic |-> TRUE, attrs |-> <<>>],
                  info_attributes(pairs, i + 1))

\* The option builder: the last name, type, default, min and max of the
\* line and every var, then the configuration of the type.  A default that
\* is not of the type is dropped; a button keeps the name alone.
build_option_keeps_default(pair) ==
    LET sps == pair.inner
        n == LastOf(sps, "option_name2", Len(sps))
        d == LastOf(sps, "option_default", Len(sps))
    IN  Built([type |-> "Option",
               config |-> IF d = 0 THEN [kind |-> "Button", name |-> sps[n].str]
                          ELSE [kind |-> "String", name |-> sps[n].str,
                                default |-> Some(sps[d].str)]])

build_option(pair) ==
    LET sps == pair.inner
        n == LastOf(sps, "option_name2", Len(sps))
        ty == InnerOf(sps, {"option_type"}, 1)
        d == LastOf(sps, "option_default", Len(sps))
        mn == LastNum(sps, "option_min", "i64")
        mx == LastNum(sps, "option_max", "i64")
        RECURSIVE opt_var(_)
        opt_var(i) ==
            IF i > Len(sps) THEN <<>>
            ELSE (IF sps[i].rule = "option_var" THEN <<sps[i].str>> ELSE <<>>) \o opt_var(i + 1)
        name == sps[n].str
        def == sps[d].str
        text_default ==
            IF d = 0 THEN None
            ELSE IF eq_ignore_ascii_case(def, KW.empty) THEN Some(<<>>)
            ELSE Some(def)
        config(t) ==
            CASE t = "option_check" ->
                     [kind |-> "Check", name |-> name,
                      default |-> IF d = 0 THEN None
                                  ELSE CASE to_ascii_lowercase(def) = KW.true -> Some(TRUE)
                                         [] to_ascii_lowercase(def) = KW.false -> Some(FALSE)
                                         [] OTHER -> None]
              [] t = "option_spin" ->
                     [kind |-> "Spin", name |-> name,
                      default |-> IF d # 0 /\ str_parse_i64(def).ok
                                  THEN Some(str_parse_i64(def).v)
                                  ELSE None,
                      min |-> mn, max |-> mx]
              [] t = "option_combo" ->
                     [kind |-> "Combo", name |-> name, default |-> text_default,
                      var |-> opt_var(1)]
              [] t = "option_string" ->
                     [kind |-> "String", name |-> name, default |-> text_default]
              [] t = "option_button" -> [kind |-> "Button", name |-> name]
    IN  IF \/ \E i \in 1..Len(sps) :
                  sps[i].rule \notin {"option_name2", "option_type", "option_default",
                                     "option_min", "option_max", "option_var"}
           \/ AnyFails(sps, "option_min", "i64")
           \/ AnyFails(sps, "option_max", "i64")
           \/ Len(ty) = 0
           \/ n = 0
        THEN Aborted
        ELSE Built([type |-> "Option", config |-> config(ty[Len(ty)].rule)])

build_info(pair) ==
    LET info(a) == IF a.panic THEN Aborted ELSE Built([type |-> "Info", attrs |-> a.attrs])
    IN  info(info_attributes(pair.inner, 1))

\* The arm of the match on the rule of a top-level pair.
build(pair) ==
    LET r == pair.rule
    IN  CASE r = "uci" -> Built([type |-> "Uci"])
          [] r = "debug" -> build_debug(pair)
          [] r = "isready" -> Built([type |-> "IsReady"])
          [] r = "setoption" -> build_setoption(pair)
          [] r = "register" -> build_register(pair)
          [] r = "ucinewgame" -> Built([type |-> "UciNewGame"])
          [] r = "stop" -> Built([type |-> "Stop"])
          [] r = "ponderhit" -> Built([type |-> "PonderHit"])
          [] r = "quit" -> Built([type |-> "Quit"])
          [] r = "position" -> build_position(pair)
          [] r = "go" -> build_go(pair)
          [] r = "id" -> build_id(pair)
          [] r = "uciok" -> Built([type |-> "UciOk"])
          [] r = "readyok" -> Built([type |-> "ReadyOk"])
          [] r = "bestmove" -> build_bestmove(pair)
          [] r \in {"copyprotection", "registration"} -> build_protection(pair)
          [] r = "info" -> build_info(pair)
          [] r = "option" -> build_option(pair)
          [] OTHER -> Aborted

(***************************************************************************)
(* parser.rs: do_parse_uci and the four entry points.                       *)
(*                                                                          *)
(* An outcome is what a call does: it returns Ok (kind "ok"), returns Err   *)
(* (kind "err"), or aborts on a failed unwrap (kind "panic").               *)
(***************************************************************************)
Panic == [kind |-> "panic"]

\* build_all as it would be if each message were put before the earlier ones.
RECURSIVE build_all_reversed(_, _)
build_all_reversed(pairs, i) ==
    IF i > Len(pairs) THEN [panic |-> FALSE, msgs |-> <<>>]
    ELSE LET push(b, rest) ==
                 IF b.panic \/ rest.panic THEN [panic |-> TRUE, msgs |-> <<>>]
                 ELSE [panic |-> FALSE, msgs |-> rest.msgs \o <<b.msg>>]
         IN  push(build(pairs[i]), build_all_reversed(pairs, i + 1))

RECURSIVE build_all(_, _)
build_all(pairs, i) ==
    IF i > Len(pairs) THEN [panic |-> FALSE, msgs |-> <<>>]
    ELSE LET push(b, rest) ==
                 IF b.panic \/ rest.panic THEN [panic |-> TRUE, msgs |-> <<>>]
                 ELSE [panic |-> FALSE, msgs |-> <<b.msg>> \o rest.msgs]
         IN  push(build(pairs[i]), build_all(pairs, i + 1))

\* do_parse_uci(s, top_rule, ml): the grammar's error is returned before any
\* message is built; with a list, every message is pushed to it; without
\* one, the last message is kept.
do_parse_uci(s, top_rule, has_ml) ==
    LET built(g, b) ==
            IF ~g.ok THEN [kind |-> "err", error |-> unwrap(g.error)]
            ELSE IF b.panic THEN Panic
            ELSE [kind |-> "ok",
                  ml |-> IF has_ml THEN b.msgs ELSE <<>>,
                  single |-> IF has_ml \/ Len(b.msgs) = 0 THEN None
                             ELSE Some(b.msgs[Len(b.msgs)])]
        parsed(g) == built(g, build_all(g.pairs, 1))
    IN  parsed(UciParser_parse(top_rule, s))

Unknown(text, error) == [type |-> "Unknown", text |-> text, error |-> error]

\* parse_strict as it would be if it ran the lenient grammar.
parse_strict_lenient(s) ==
    LET result(r) == IF r.kind = "ok" THEN [kind |-> "ok", ml |-> r.ml] ELSE r
    IN  result(do_parse_uci(s, "commands_ignore_unknown", TRUE))

parse_strict(s) ==
    LET result(r) == IF r.kind = "ok" THEN [kind |-> "ok", ml |-> r.ml] ELSE r
    IN  result(do_parse_uci(s, "commands", TRUE))

\* parse as it would be if it ran the strict grammar and gave the empty list
\* on an error.
parse_or_nothing(s) ==
    LET result(r) == CASE r.kind = "ok" -> [kind |-> "ok", ml |-> r.ml]
                       [] r.kind = "err" -> [kind |-> "ok", ml |-> <<>>]
                       [] OTHER -> Panic
    IN  result(do_parse_uci(s, "commands", TRUE))

parse(s) ==
    LET result(r) == IF r.kind = "ok" THEN [kind |-> "ok", ml |-> r.ml] ELSE Panic
    IN  result(do_parse_uci(s, "commands_ignore_unknown", TRUE))

\* parse_with_unknown as it would be without the trim_end.
parse_with_unknown_untrimmed(s) ==
    LET result(r) ==
            CASE r.kind = "err" -> [kind |-> "ok", ml |-> <<Unknown(s, Some(r.error))>>]
              [] r.kind = "ok" -> [kind |-> "ok", ml |-> r.ml]
              [] OTHER -> Panic
    IN  result(do_parse_uci(s, "commands", TRUE))

\* parse_with_unknown as it would be if, like parse_one, it gave an Unknown
\* message for a text without a message.
parse_with_unknown_empty(s) ==
    LET result(r) ==
            CASE r.kind = "err" ->
                     [kind |-> "ok", ml |-> <<Unknown(trim_end(s), Some(r.error))>>]
              [] r.kind = "ok" ->
                     [kind |-> "ok",
                      ml |-> IF Len(r.ml) = 0 THEN <<Unknown(<<>>, None)>> ELSE r.ml]
              [] OTHER -> Panic
    IN  result(do_parse_uci(s, "commands", TRUE))

parse_with_unknown(s) ==
    LET result(r) ==
            CASE r.kind = "err" ->
                     [kind |-> "ok", ml |-> <<Unknown(trim_end(s), Some(r.error))>>]
              [] r.kind = "ok" -> [kind |-> "ok", ml |-> r.ml]
              [] OTHER -> Panic
    IN  result(do_parse_uci(s, "commands", TRUE))

parse_one_commands(s) ==
    LET result(r) ==
            CASE r.kind = "err" ->
                     [kind |-> "ok", msg |-> Unknown(trim_end(s), Some(r.error))]
              [] r.kind = "ok" ->
                     [kind |-> "ok",
                      msg |-> IF is_some(r.single) THEN unwrap(r.single)
                              ELSE Unknown(<<>>, None)]
              [] OTHER -> Panic
    IN  result(do_parse_uci(s, "commands", FALSE))

parse_one(s) ==
    LET result(r) ==
            CASE r.kind = "err" ->
                     [kind |-> "ok", msg |-> Unknown(trim_end(s), Some(r.error))]
              [] r.kind = "ok" ->
                     [kind |-> "ok",
                      msg |-> IF is_some(r.single) THEN unwrap(r.single)
                              ELSE Unknown(<<>>, None)]
              [] OTHER -> Panic
    IN  result(do_parse_uci(s, "single_message_per_line", FALSE))

(***************************************************************************)
(* uci.rs: the serializer.                                                  *)
(***************************************************************************)
SP == <<" ">>

\* Display for UciSquare and UciMove
fmt_square(sq) == <<sq.file>> \o FormatNat(sq.rank)

fmt_move(m) ==
    fmt_square(m.from) \o fmt_square(m.to)
    \o (IF is_some(m.promotion) /\ is_some(UciPiece_as_char(unwrap(m.promotion)))
        THEN <<unwrap(UciPiece_as_char(unwrap(m.promotion)))>>
        ELSE <<>>)

\* Every move of `moves` with a space before it, or after it.
RECURSIVE fmt_moves_before(_)
fmt_moves_before(moves) ==
    IF Len(moves) = 0 THEN <<>>
    ELSE SP \o fmt_move(Head(moves)) \o fmt_moves_before(Tail(moves))

RECURSIVE fmt_moves_after(_)
fmt_moves_after(moves) ==
    IF Len(moves) = 0 THEN <<>>
    ELSE fmt_move(Head(moves)) \o SP \o fmt_moves_after(Tail(moves))

\* "<keyword> <n> " when the option holds n, nothing otherwise.
go_clause(kw, o) == IF is_some(o) THEN kw \o SP \o FormatNat(unwrap(o)) \o SP ELSE <<>>

serialize_time_control(tc) ==
    CASE tc.tc = "Infinite" -> KW.infinite \o SP
      [] tc.tc = "Ponder" -> KW.ponder \o SP
      [] tc.tc = "MoveTime" -> KW.movetime \o SP \o FormatNat(tc.ms) \o SP
      [] tc.tc = "TimeLeft" ->
             go_clause(KW.wtime, tc.white_time)
             \o go_clause(KW.bt, tc.black_time)
             \o go_clause(KW.winc, tc.white_increment)
             \o go_clause(KW.binc, tc.black_increment)
             \o go_clause(KW.movestogo, tc.moves_to_go)

serialize_search_control(sc) ==
    go_clause(KW.depth, sc.depth)
    \o go_clause(KW.nodes, sc.nodes)
    \o go_clause(KW.mate, sc.mate)
    \o (IF Len(sc.search_moves) # 0
        THEN SP \o KW.searchmoves \o SP \o fmt_moves_after(sc.search_moves)
        ELSE <<>>)

\* UciInfoAttribute::get_name
get_name(a) ==
    CASE a.attr = "Depth" -> KW.depth
      [] a.attr = "SelDepth" -> KW.seldepth
      [] a.attr = "Time" -> KW.time
      [] a.attr = "Nodes" -> KW.nodes
      [] a.attr = "Pv" -> KW.pv
      [] a.attr = "MultiPv" -> KW.multipv
      [] a.attr = "Score" -> KW.score
      [] a.attr = "CurrMove" -> KW.currmove
      [] a.attr = "CurrMoveNum" -> KW.currmovenum
      [] a.attr = "HashFull" -> KW.hashfull
      [] a.attr = "Nps" -> KW.nps
      [] a.attr = "TbHits" -> KW.tbhits
      [] a.attr = "SbHits" -> KW.sbhits
      [] a.attr = "CpuLoad" -> KW.cpuload
      [] a.attr = "String" -> KW.string
      [] a.attr = "Refutation" -> KW.refutation
      [] a.attr = "CurrLine" -> KW.currline
      [] a.attr = "Any" -> a.t

\* UciInfoAttribute::serialize
serialize_info_attribute(a) ==
    get_name(a) \o
    CASE a.attr \in {"Depth", "SelDepth", "Time", "Nodes", "MultiPv", "CurrMoveNum",
                     "HashFull", "Nps", "TbHits", "SbHits", "CpuLoad"} ->
             SP \o FormatNat(a.v)
      [] a.attr \in {"Pv", "Refutation"} -> fmt_moves_before(a.moves)
      [] a.attr = "Score" ->
             (IF is_some(a.cp) THEN SP \o KW.cp \o SP \o FormatInt(unwrap(a.cp)) ELSE <<>>)
             \o (IF is_some(a.mate) THEN SP \o KW.mate \o SP \o FormatInt(unwrap(a.mate))
                 ELSE <<>>)
             \o (IF is_some(a.lower_bound) THEN SP \o KW.lowerbound
                 ELSE IF is_some(a.upper_bound) THEN SP \o KW.upperbound
                 ELSE <<>>)
      [] a.attr = "CurrMove" -> SP \o fmt_move(a.mv)
      [] a.attr = "String" -> SP \o a.s
      [] a.attr = "CurrLine" ->
             (IF is_some(a.cpu_nr) THEN SP \o KW.cpunr \o SP \o FormatNat(unwrap(a.cpu_nr))
              ELSE <<>>)
             \o fmt_moves_before(a.line)
      [] a.attr = "Any" -> SP \o a.s

RECURSIVE serialize_info_line(_)
serialize_info_line(attrs) ==
    IF Len(attrs) = 0 THEN <<>>
    ELSE SP \o serialize_info_attribute(Head(attrs)) \o serialize_info_line(Tail(attrs))

\* UciOptionConfig::serialize: the name and the type, then the clauses the
\* fields of the type hold.
UciOptionConfig_serialize(c) ==
    LET clause(kw, o, text) == IF is_some(o) THEN SP \o kw \o SP \o text ELSE <<>>
        RECURSIVE vars_of(_)
        vars_of(vs) ==
            IF Len(vs) = 0 THEN <<>> ELSE SP \o KW.var \o SP \o Head(vs) \o vars_of(Tail(vs))
        type_str == CASE c.kind = "Check" -> KW.check
                      [] c.kind = "Spin" -> KW.spin
                      [] c.kind = "Combo" -> KW.combo
                      [] c.kind = "Button" -> KW.button
                      [] c.kind = "String" -> KW.string
    IN  KW.option \o SP \o KW.name \o SP \o c.name \o SP \o KW.type \o SP \o type_str
        \o CASE c.kind = "Check" ->
                   clause(KW.default, c.default,
                          IF c.default = Some(TRUE) THEN KW.true ELSE KW.false)
              [] c.kind = "Spin" ->
                   clause(KW.default, c.default,
                          IF is_some(c.default) THEN FormatInt(unwrap(c.default)) ELSE <<>>)
                   \o clause(KW.min, c.min, IF is_some(c.min) THEN FormatInt(unwrap(c.min)) ELSE <<>>)
                   \o clause(KW.max, c.max, IF is_some(c.max) THEN FormatInt(unwrap(c.max)) ELSE <<>>)
              [] c.kind = "Combo" ->
                   clause(KW.default, c.default,
                          IF is_some(c.default) THEN unwrap(c.default) ELSE <<>>)
                   \o vars_of(c.var)
              [] c.kind = "String" ->
                   clause(KW.default, c.default,
                          IF is_some(c.default) THEN unwrap(c.default) ELSE <<>>)
              [] c.kind = "Button" -> <<>>

UNKNOWN_MESSAGE ==
    <<"U", "N", "K", "N", "O", "W", "N", " ", "M", "E", "S", "S", "A", "G", "E", ":", " ">>

\* UciMessage::serialize
serialize(m) ==
    CASE m.type = "Debug" -> IF m.on THEN KW.debug \o SP \o KW.on ELSE KW.debug \o SP \o KW.off
      [] m.type = "Register" ->
             IF m.later THEN KW.register \o SP \o KW.later
             ELSE KW.register \o SP
                  \o (IF is_some(m.name)
                      THEN KW.name \o SP \o unwrap(m.name)
                           \o (IF is_some(m.code) THEN SP ELSE <<>>)
                      ELSE <<>>)
                  \o (IF is_some(m.code) THEN KW.code \o SP \o unwrap(m.code) ELSE <<>>)
      [] m.type = "Position" ->
             KW.position \o SP
             \o (IF m.startpos THEN KW.startpos
                 ELSE IF is_some(m.fen) THEN KW.fen \o SP \o unwrap(m.fen)
                 ELSE <<>>)
             \o (IF Len(m.moves) > 0 THEN SP \o KW.moves \o fmt_moves_before(m.moves)
                 ELSE <<>>)
      [] m.type = "SetOption" ->
             KW.setoption \o SP \o KW.name \o SP \o m.name
             \o (IF is_some(m.value) /\ Len(unwrap(m.value)) # 0
                 THEN SP \o KW.value \o SP \o unwrap(m.value)
                 ELSE SP \o KW.value \o SP \o KW.empty)
      [] m.type = "Go" ->
             KW.go \o SP
             \o (IF is_some(m.time_control)
                 THEN serialize_time_control(unwrap(m.time_control)) ELSE <<>>)
             \o (IF is_some(m.search_control)
                 THEN serialize_search_control(unwrap(m.search_control)) ELSE <<>>)
      [] m.type = "Uci" -> KW.uci
      [] m.type = "IsReady" -> KW.isready
      [] m.type = "UciNewGame" -> KW.ucinewgame
      [] m.type = "Stop" -> KW.stop
      [] m.type = "PonderHit" -> KW.ponderhit
      [] m.type = "Quit" -> KW.quit
      [] m.type = "Id" ->
             KW.id \o SP
             \o (IF is_some(m.name) THEN KW.name \o SP \o unwrap(m.name)
                 ELSE IF is_some(m.author) THEN KW.author \o SP \o unwrap(m.author)
                 ELSE <<>>)
      [] m.type = "UciOk" -> KW.uciok
      [] m.type = "ReadyOk" -> KW.readyok
      [] m.type = "BestMove" ->
             KW.bestmove \o SP \o fmt_move(m.best_move)
             \o (IF is_some(m.ponder) THEN SP \o KW.ponder \o SP \o fmt_move(unwrap(m.ponder))
                 ELSE <<>>)
      [] m.type \in {"CopyProtection", "Registration"} ->
             (IF m.type = "CopyProtection" THEN KW.copyprotection ELSE KW.registration)
             \o SP
             \o (CASE m.state = "Checking" -> KW.checking
                   [] m.state = "Ok" -> KW.ok
                   [] m.state = "Error" -> KW.error)
      [] m.type = "Info" -> KW.info \o serialize_info_line(m.attrs)
      [] m.type = "Option" -> UciOptionConfig_serialize(m.config)
      [] m.type = "Unknown" -> UNKNOWN_MESSAGE \o m.text

from_unframed(m) == [message |-> m, bytes |-> serialize(m)]

\* impl From<UciMessage> for ByteVecUciMessage: the message and the bytes of
\* its text and one "\n".  Every character of the model is one byte, so the
\* bytes are written as the characters.
ByteVecUciMessage_from(m) == [message |-> m, bytes |-> serialize(m) \o <<"\n">>]

(***************************************************************************)
(* The callers of the library: a text is put together, from lines, from a   *)
(* numeric clause or by serializing a message, and an entry point is        *)
(* called on it.                                                            *)
(***************************************************************************)
VARIABLES
    input,   \* the text handed to the entry points
    kept,    \* the same text without its unrecognised lines
    given,   \* how the text was made: lines fed, a numeric clause, a message
    op,      \* the entry point called last, "none" before any call
    out      \* the outcome of that call

vars == <<input, kept, given, op, out>>

NL == <<"\n">>
Opt(S) == {None} \cup {Some(x) : x \in S}

\* The lines a caller feeds, each with what it is: a command ("good"), a
\* line of blanks ("blank"), no command at all ("bad"), or a command with a
\* number beyond its field ("wide"), as in the tests of parser.rs.
LinePool ==
    { [text |-> KW.uci, class |-> "good"],
      [text |-> KW.go \o SP \o SP \o KW.depth \o SP \o <<"5">>, class |-> "good"],
      [text |-> <<"I", "s", "R", "e", "a", "d", "y", " ", "\r">>, class |-> "good"],
      [text |-> KW.id \o SP \o KW.name \o SP \o <<"a">>, class |-> "good"],
      [text |-> <<>>, class |-> "blank"],
      [text |-> <<" ", "\t">>, class |-> "blank"],
      [text |-> KW.debug \o KW.on, class |-> "bad"],
      [text |-> KW.go \o SP \o KW.depth \o SP \o <<"3", "0", "0">>, class |-> "wide"] }

\* The runs of digits a caller types, up to n digits: runs of 2 and 6, and
\* the same with a zero in front.
TypedDigits == {"2", "6"}
DigitRuns(n) ==
    LET runs(k) == UNION {[1..j -> TypedDigits] : j \in 1..k}
    IN  runs(n) \cup {<<"0">> \o r : r \in runs(n - 1)} \cup {<<"0">>}

\* The numeric clauses: the text before the number, the text after it, and
\* the field the number is for.
NumberClauses ==
    { [field |-> "go depth", pre |-> KW.go \o SP \o KW.depth \o SP, post |-> <<>>],
      [field |-> "go mate", pre |-> KW.go \o SP \o KW.mate \o SP, post |-> <<>>],
      [field |-> "go movestogo", pre |-> KW.go \o SP \o KW.movestogo \o SP, post |-> <<>>],
      [field |-> "depth", pre |-> KW.info \o SP \o KW.depth \o SP, post |-> <<>>],
      [field |-> "seldepth", pre |-> KW.info \o SP \o KW.seldepth \o SP, post |-> <<>>],
      [field |-> "multipv", pre |-> KW.info \o SP \o KW.multipv \o SP, post |-> <<>>],
      [field |-> "currmovenum", pre |-> KW.info \o SP \o KW.currmovenum \o SP,
       post |-> <<>>],
      [field |-> "hashfull", pre |-> KW.info \o SP \o KW.hashfull \o SP, post |-> <<>>],
      [field |-> "cpuload", pre |-> KW.info \o SP \o KW.cpuload \o SP, post |-> <<>>],
      [field |-> "cpunr", pre |-> KW.info \o SP \o KW.currline \o SP,
       post |-> <<" ", "e", "2", "e", "4">>],
      [field |-> "cp", pre |-> KW.info \o SP \o KW.score \o SP \o KW.cp \o SP,
       post |-> <<>>],
      [field |-> "mate", pre |-> KW.info \o SP \o KW.score \o SP \o KW.mate \o SP,
       post |-> <<>>] }

\* The messages a caller serializes.
Moves ==
    {UciMove(UciSquare("e", 2), UciSquare("e", 4), p) :
         p \in Opt({"Pawn", "Knight", "Bishop", "Rook", "Queen", "King"})}
MoveLists == {<<>>, <<UciMove(UciSquare("e", 2), UciSquare("e", 4), None)>>}
Texts == {<<"a">>, <<"a", " ", "b">>}

\* The command lines a caller writes, as in the tests of parser.rs: what the
\* line is about, which case of it, its text, and the two parts x and y the
\* text was made of.
Line(about, tag, text, x, y) ==
    [about |-> about, tag |-> tag, text |-> text, x |-> x, y |-> y]

Codes == {<<"x">>, <<"4", "3">>}
Switches ==
    {KW.on, KW.off, <<"O", "n">>, <<"a", "b", "c">>, <<"o", "n", "t", "a", "r", "i", "o">>}
Values == {<<"x">>, <<"3", " ", " ", "c", ":", "\\">>, KW.true, <<"x">> \o SP \o KW.value}
GoTimes == {<<>>, SP \o KW.ponder, SP \o KW.wtime \o SP \o <<"5">>}
GoSearches ==
    {<<>>, SP \o KW.depth \o SP \o <<"5">>, SP \o KW.mate \o SP \o <<"3">>,
     SP \o KW.nodes \o SP \o <<"5">>, SP \o KW.searchmoves \o SP \o <<"e", "2", "e", "4">>,
     SP \o KW.depth \o SP \o <<"5">> \o SP \o KW.nodes \o SP \o <<"7">>}
CheckDefaults == {KW.true, <<"F", "a", "l", "s", "e">>, <<"b", "a", "n", "a", "n", "a">>}
SpinDefaults == {<<"2">>, <<"-", "5">>, <<"a", "b", "c">>, <<"2", "x">>}
TextDefaults ==
    {KW.empty, <<"<", "E", "m", "p", "t", "y", ">">>, <<"<", "E", "M", "P", "T", "Y", ">">>,
     <<"x">>, <<"e", "m", "p", "t", "y">>, <<"a", " ", " ", "b">>}
\* The clauses of an info line and the time-left clauses of a go line, each
\* under a short name, and the line of a keyword and a list of clauses.
Clause(c) ==
    CASE c = "d" -> KW.depth \o SP \o <<"5">>
      [] c = "n" -> KW.nodes \o SP \o <<"7">>
      [] c = "c" -> KW.currline \o SP \o <<"1">> \o SP \o <<"e", "2", "e", "4">>
      [] c = "l" -> KW.currline \o SP \o <<"e", "2", "e", "4">>
      [] c = "s" -> KW.score \o SP \o KW.cp \o SP \o <<"3">>
      [] c = "wtime" -> KW.wtime \o SP \o <<"5">>
      [] c = "btime" -> KW.btime \o SP \o <<"6">>
      [] c = "winc" -> KW.winc \o SP \o <<"2">>
      [] c = "binc" -> KW.binc \o SP \o <<"3">>
      [] c = "movestogo" -> KW.movestogo \o SP \o <<"4">>
RECURSIVE ClauseLine(_, _)
ClauseLine(kw, cs) ==
    IF Len(cs) = 0 THEN kw
    ELSE ClauseLine(kw, SubSeq(cs, 1, Len(cs) - 1)) \o SP \o Clause(cs[Len(cs)])
ButtonClauses ==
    {<<>>,
     SP \o KW.default \o SP \o <<"I">>,
     SP \o KW.min \o SP \o <<"5">>,
     SP \o KW.max \o SP \o <<"6">>,
     SP \o KW.var \o SP \o <<"A">> \o SP \o KW.var \o SP \o <<"B">>,
     SP \o KW.default \o SP \o <<"I">> \o SP \o KW.min \o SP \o <<"5">> \o SP \o KW.max
        \o SP \o <<"6">> \o SP \o KW.var \o SP \o <<"A">> \o SP \o KW.var \o SP \o <<"B">>}

CommandPool ==
    {Line("register", "later", KW.register \o SP \o KW.later, <<>>, <<>>)}
    \cup {Line("register", "name code",
               KW.register \o SP \o KW.name \o SP \o n \o SP \o KW.code \o SP \o c, n, c) :
              n \in Texts, c \in Codes}
    \cup {Line("register", "code name",
               KW.register \o SP \o KW.code \o SP \o c \o SP \o KW.name \o SP \o n, n, c) :
              n \in Texts, c \in Codes}
    \cup {Line("register", "name", KW.register \o SP \o KW.name \o SP \o n, n, <<>>) :
              n \in Texts}
    \cup {Line("register", "code", KW.register \o SP \o KW.code \o SP \o c, <<>>, c) :
              c \in Codes}
    \cup {Line("debug", "spaced", KW.debug \o SP \o SP \o w, w, <<>>) : w \in Switches}
    \cup {Line("debug", "joined", KW.debug \o w, w, <<>>) : w \in Switches}
    \cup {Line("setoption", "value",
               KW.setoption \o SP \o KW.name \o SP \o SP \o n \o SP \o SP \o KW.value
                  \o SP \o v, n, v) : n \in Texts, v \in Values}
    \cup {Line("setoption", "no value", KW.setoption \o SP \o KW.name \o SP \o n \o SP,
               n, <<>>) : n \in Texts}
    \cup {Line("go", "clauses", KW.go \o t \o sc, sc, t) : t \in GoTimes, sc \in GoSearches}
    \cup {Line("option", "check",
               KW.option \o SP \o KW.name \o SP \o n \o SP \o KW.type \o SP \o KW.check
                  \o SP \o KW.default \o SP \o d, n, d) : n \in Texts, d \in CheckDefaults}
    \cup {Line("option", "spin",
               KW.option \o SP \o KW.name \o SP \o n \o SP \o KW.type \o SP \o KW.spin
                  \o SP \o KW.default \o SP \o d \o SP \o KW.min \o SP \o <<"0">>
                  \o SP \o KW.max \o SP \o <<"4">>, n, d) : n \in Texts, d \in SpinDefaults}
    \cup {Line("option", "button",
               KW.option \o SP \o KW.name \o SP \o n \o SP \o KW.type \o SP \o KW.button
                  \o c, n, c) : n \in Texts, c \in ButtonClauses}
    \cup {Line("info", "clauses", ClauseLine(KW.info, cs), <<>>, cs) :
              cs \in UNION {[1..k -> {"d", "n", "c", "l", "s"}] : k \in 0..3}}
    \cup {Line("info", tag,
               KW.info \o (IF tag = "any after depth" THEN SP \o Clause("d") ELSE <<>>)
                  \o SP \o n \o SP \o r, n, r) :
              tag \in {"any", "any after depth"},
              n \in {<<"x">>, <<"U", "_", "W">>},
              r \in {<<"a">>, <<"-", "2", " ", " ", "A", "3">>, Clause("d")}}
    \cup {Line("position", "startpos", KW.position \o SP \o SP \o KW.startpos \o m, <<>>, m) :
              m \in {<<>>, SP \o KW.moves \o SP \o <<"e", "2", "e", "4">>}}
    \cup {Line("position", "fen", KW.position \o SP \o KW.fen \o SP \o f \o m, f, m) :
              f \in {<<"8", "/", "8">>, <<"8", "/", "8", " ", "w", " ", " ", " ", "-">>},
              m \in {<<>>, SP \o KW.moves \o SP \o <<"e", "2", "e", "4">>}}
    \cup {Line("position", "both",
               KW.position \o SP \o KW.startpos \o SP \o KW.fen \o SP \o <<"8", "/", "8">>,
               <<"8", "/", "8">>, <<>>),
          Line("position", "neither",
               KW.position \o SP \o KW.moves \o SP \o <<"e", "2", "e", "4">>, <<>>,
               SP \o KW.moves \o SP \o <<"e", "2", "e", "4">>)}
    \cup {Line("go", "timeleft", ClauseLine(KW.go, cs), <<>>, cs) :
              cs \in {s \in UNION {[1..k -> {"wtime", "btime", "winc", "binc", "movestogo"}] :
                                      k \in 1..5} :
                          \A i, j \in 1..Len(s) : i # j => s[i] # s[j]}}
    \cup {Line("option", "string",
               KW.option \o SP \o KW.name \o SP \o n \o SP \o KW.type \o SP \o KW.string
                  \o SP \o KW.default \o SP \o d, n, d) : n \in Texts, d \in TextDefaults}
    \cup {Line("option", "string no default",
               KW.option \o SP \o KW.name \o SP \o n \o SP \o KW.type \o SP \o KW.string,
               n, <<>>) : n \in Texts}
    \cup {Line("option", "combo",
               KW.option \o SP \o KW.name \o SP \o n \o SP \o KW.type \o SP \o KW.combo
                  \o SP \o KW.default \o SP \o d \o SP \o KW.var \o SP \o <<"A">>
                  \o SP \o KW.var \o SP \o <<"B">>, n, d) : n \in Texts, d \in TextDefaults}
    \cup {Line("option", "combo no default",
               KW.option \o SP \o KW.name \o SP \o n \o SP \o KW.type \o SP \o KW.combo
                  \o SP \o KW.var \o SP \o <<"A">>, n, <<>>) : n \in Texts}

TimeControls ==
    {Ponder, Infinite, MoveTime(5)}
    \cup ({TimeLeft(wt, bt, wi, bi, mtg) :
               wt \in Opt({5}), bt \in Opt({5}), wi \in Opt({2}), bi \in Opt({2}),
               mtg \in Opt({3})}
          \ {TimeLeft(None, None, None, None, None)})

SearchControls ==
    {UciSearchControl(mv, mate, depth, nodes) :
         mv \in MoveLists, mate \in Opt({3}), depth \in Opt({4}), nodes \in Opt({5})}
    \ {UciSearchControl_default}

InfoAttributeValues ==
    {InfoNum(a, 5) : a \in {"Depth", "SelDepth", "Time", "Nodes", "MultiPv", "CurrMoveNum",
                            "HashFull", "Nps", "TbHits", "SbHits", "CpuLoad"}}
    \cup {InfoMoves(a, mv) : a \in {"Pv", "Refutation"}, mv \in MoveLists}
    \cup ({InfoScore(cp, mate, lb, ub) :
               cp \in Opt({0 - 5}), mate \in Opt({3}), lb \in Opt(BOOLEAN),
               ub \in Opt(BOOLEAN)}
          \ {InfoScore(None, None, lb, ub) : lb \in Opt(BOOLEAN), ub \in Opt(BOOLEAN)})
    \cup {[attr |-> "CurrMove", mv |-> m] : m \in Moves}
    \cup {InfoCurrLine(c, mv) : c \in Opt({1}), mv \in MoveLists}
    \cup {InfoString(t) : t \in Texts}
    \cup {InfoAny(<<"x">>, t) : t \in Texts}

MessageTypes ==
    {"Atomic", "Debug", "Register", "Position", "SetOption", "Go", "Id", "BestMove",
     "Protection", "Info", "Option Check", "Option Spin", "Option Combo", "Option String",
     "Option Button", "Unknown"}

Messages(t) ==
    CASE t = "Atomic" ->
             {[type |-> a] : a \in {"Uci", "IsReady", "UciNewGame", "Stop", "PonderHit",
                                    "Quit", "UciOk", "ReadyOk"}}
      [] t = "Debug" -> {[type |-> "Debug", on |-> b] : b \in BOOLEAN}
      [] t = "Register" ->
             {register_later}
             \cup {register_code(n, c) : n \in Texts, c \in Texts}
      [] t = "Position" ->
             {[type |-> "Position", startpos |-> TRUE, fen |-> None, moves |-> mv] :
                  mv \in MoveLists}
             \cup {[type |-> "Position", startpos |-> FALSE, fen |-> Some(<<"8", "/", "8">>),
                    moves |-> mv] : mv \in MoveLists}
      [] t = "SetOption" ->
             {[type |-> "SetOption", name |-> n, value |-> v] :
                  n \in Texts, v \in Opt(Texts \cup {<<>>})}
      [] t = "Go" -> {UciGo(tc, sc) : tc \in Opt(TimeControls), sc \in Opt(SearchControls)}
      [] t = "Id" ->
             {[type |-> "Id", name |-> Some(n), author |-> None] : n \in Texts}
             \cup {[type |-> "Id", name |-> None, author |-> Some(a)] : a \in Texts}
      [] t = "BestMove" ->
             {[type |-> "BestMove", best_move |-> b, ponder |-> p] :
                  b \in Moves, p \in Opt(Moves)}
      [] t = "Protection" ->
             {[type |-> c, state |-> s] :
                  c \in {"CopyProtection", "Registration"},
                  s \in {"Checking", "Ok", "Error"}}
      [] t = "Option Check" ->
             {[type |-> "Option", config |-> [kind |-> "Check", name |-> n, default |-> d]] :
                  n \in Texts, d \in Opt(BOOLEAN)}
      [] t = "Option Spin" ->
             {[type |-> "Option",
               config |-> [kind |-> "Spin", name |-> n, default |-> d, min |-> mn,
                           max |-> mx]] :
                  n \in Texts, d \in Opt({0 - 5}), mn \in Opt({0}), mx \in Opt({4})}
      [] t = "Option Combo" ->
             {[type |-> "Option",
               config |-> [kind |-> "Combo", name |-> n, default |-> d, var |-> v]] :
                  n \in Texts, d \in Opt(Texts \cup {<<>>}),
                  v \in {<<>>, << <<"A">>, <<"B">> >>}}
      [] t = "Option String" ->
             {[type |-> "Option", config |-> [kind |-> "String", name |-> n, default |-> d]] :
                  n \in Texts, d \in Opt(Texts \cup {<<>>})}
      [] t = "Option Button" ->
             {[type |-> "Option", config |-> [kind |-> "Button", name |-> n]] : n \in Texts}
      [] t = "Unknown" -> {Unknown(x, None) : x \in Texts \cup {<<>>}}
      [] t = "Info" ->
             {[type |-> "Info", attrs |-> <<a>>] : a \in InfoAttributeValues}
             \cup {[type |-> "Info", attrs |-> <<InfoNum("Depth", 5), InfoNum("Nodes", 5)>>],
                   [type |-> "Info", attrs |-> <<InfoNum("Nodes", 5), InfoNum("Depth", 5)>>],
                   [type |-> "Info", attrs |-> <<>>],
                   [type |-> "Info",
                    attrs |-> <<InfoCurrLine(None, <<>>), InfoNum("Depth", 5),
                                InfoCurrLine(None, <<>>)>>]}

NoOutcome == [kind |-> "none"]

Init ==
    /\ input = <<>>
    /\ kept = <<>>
    /\ given = [kind |-> "lines", fed |-> <<>>]
    /\ op = "none"
    /\ out = NoOutcome

\* The caller adds a line to the text; lines are separated by "\n".
Feed(l) ==
    /\ op = "none"
    /\ given.kind = "lines"
    /\ Len(given.fed) < MaxLines
    /\ input' = IF Len(given.fed) = 0 THEN l.text ELSE input \o NL \o l.text
    /\ kept' = IF l.class = "bad" THEN kept
               ELSE IF \A i \in 1..Len(given.fed) : given.fed[i] = "bad" THEN l.text
               ELSE kept \o NL \o l.text
    /\ given' = [kind |-> "lines", fed |-> Append(given.fed, l.class)]
    /\ op' = "none"
    /\ out' = NoOutcome

\* The caller writes one numeric clause.
TypeNumber(c, d) ==
    /\ given = [kind |-> "lines", fed |-> <<>>]
    /\ input' = c.pre \o d \o c.post
    /\ kept' = input'
    /\ given' = [kind |-> "number", field |-> c.field, digits |-> d]
    /\ op' = "none"
    /\ out' = NoOutcome

\* The caller writes one command line.
TypeCommand(c) ==
    /\ given = [kind |-> "lines", fed |-> <<>>]
    /\ input' = c.text
    /\ kept' = input'
    /\ given' = [kind |-> "command", about |-> c.about, tag |-> c.tag, x |-> c.x, y |-> c.y]
    /\ op' = "none"
    /\ out' = NoOutcome

\* The caller serializes a message.
Serialize(m) ==
    /\ given = [kind |-> "lines", fed |-> <<>>]
    /\ input' = serialize(m)
    /\ kept' = input'
    /\ given' = [kind |-> "message", msg |-> m]
    /\ op' = "none"
    /\ out' = NoOutcome

\* The caller frames the message it serialized.
From ==
    /\ op = "none"
    /\ given.kind = "message"
    /\ op' = "from"
    /\ out' = [kind |-> "framed", framed |-> ByteVecUciMessage_from(given.msg)]
    /\ UNCHANGED <<input, kept, given>>

ParseStrict ==
    /\ op = "none"
    /\ op' = "parse_strict"
    /\ out' = parse_strict(input)
    /\ UNCHANGED <<input, kept, given>>

Parse ==
    /\ op = "none"
    /\ op' = "parse"
    /\ out' = parse(input)
    /\ UNCHANGED <<input, kept, given>>

ParseWithUnknown ==
    /\ op = "none"
    /\ op' = "parse_with_unknown"
    /\ out' = parse_with_unknown(input)
    /\ UNCHANGED <<input, kept, given>>

ParseOne ==
    /\ op = "none"
    /\ op' = "parse_one"
    /\ out' = parse_one(input)
    /\ UNCHANGED <<input, kept, given>>

Next ==
    \/ \E l \in LinePool : Feed(l)
    \/ \E c \in NumberClauses, d \in DigitRuns(MaxDigits) : TypeNumber(c, d)
    \/ \E c \in CommandPool : TypeCommand(c)
    \/ \E t \in MessageTypes : \E m \in Messages(t) : Serialize(m)
    \/ From
    \/ ParseStrict
    \/ Parse
    \/ ParseWithUnknown
    \/ ParseOne

Spec == Init /\ [][Next]_vars

(***************************************************************************)
(* The claims.                                                              *)
(***************************************************************************)
\* Two messages are the same message.
SameMessage(a, b) == a.type = b.type /\ a = b

\* C1: round trip: parse_one of the serialized text of a constructed message
\* of any variant other than Unknown (SetOption with a non-empty value) is
\* that message.
C1_RoundTrip ==
    (/\ op = "parse_one"
     /\ given.kind = "message"
     /\ given.msg.type = "SetOption" =>
            is_some(given.msg.value) /\ unwrap(given.msg.value) # <<>>)
    => (out.kind = "ok" /\ SameMessage(out.msg, given.msg))

\* C2: SetOption with no value and SetOption with the empty value serialize
\* to "setoption name <name> value <empty>", and parse_one of that text is
\* SetOption with the empty value.
C2_SetOptionEmpty ==
    (/\ op = "parse_one"
     /\ given.kind = "message"
     /\ given.msg.type = "SetOption"
     /\ given.msg.value \in {None, Some(<<>>)})
    => /\ input = KW.setoption \o SP \o KW.name \o SP \o given.msg.name
                  \o SP \o KW.value \o SP \o KW.empty
       /\ out.kind = "ok"
       /\ SameMessage(out.msg,
                      [type |-> "SetOption", name |-> given.msg.name, value |-> Some(<<>>)])


\* C3: parse_strict is atomic: when some non-blank line of the input is no
\* command, it returns an error and no message, wherever that line stands
\* and whatever lines come before or after it.
C3_StrictAtomic ==
    (/\ op = "parse_strict"
     /\ given.kind = "lines"
     /\ \E i \in 1..Len(given.fed) : given.fed[i] = "bad")
    => (out.kind = "err" /\ DOMAIN out = {"kind", "error"})

\* C3 happens: a line that is no command between two commands.
C3_Witness ==
    /\ op = "parse_strict"
    /\ given.kind = "lines"
    /\ given.fed = <<"good", "bad", "good">>
    /\ out.kind = "err"

\* C4: lenient drop: parse on a text has the outcome of parse_strict on the
\* text without its unrecognised lines, and the list holds one message for
\* each command line.
C4_LenientDrop ==
    (op = "parse" /\ given.kind = "lines")
    => /\ out = parse_strict(kept)
       /\ out.kind = "ok" =>
              Len(out.ml) = Cardinality({i \in 1..Len(given.fed) : given.fed[i] = "good"})

\* C4 happens: an unrecognised line between two commands is dropped.
C4_Witness ==
    /\ op = "parse"
    /\ given.kind = "lines"
    /\ given.fed = <<"good", "bad", "good">>
    /\ out.kind = "ok"
    /\ Len(out.ml) = 2

\* C5: parse never fails: on every input, also one whose number is beyond
\* its field, it returns a list and neither returns an error nor aborts.
C5_ParseNeverFails == op = "parse" => out.kind = "ok"

\* C6: parse_with_unknown is all or nothing: the list of parse_strict when
\* that succeeds; when it fails, one message Unknown(text, Some(error)) whose
\* text is the whole input without its trailing whitespace.
C6_AllOrNothing ==
    op = "parse_with_unknown"
    => LET r == parse_strict(input)
           t == out.ml[1].text
       IN  /\ r.kind = "ok" => out = r
           /\ r.kind = "err" =>
                  /\ out.kind = "ok"
                  /\ Len(out.ml) = 1
                  /\ out.ml[1].type = "Unknown"
                  /\ out.ml[1].error = Some(r.error)
                  /\ Len(t) <= Len(input)
                  /\ t = SubSeq(input, 1, Len(t))
                  /\ \A i \in (Len(t) + 1)..Len(input) : IsWhitespace(input[i])
                  /\ Len(t) > 0 => ~IsWhitespace(t[Len(t)])

\* C6 happens: a command, a line that is no command, and trailing blanks.
C6_Witness ==
    /\ op = "parse_with_unknown"
    /\ given.kind = "lines"
    /\ given.fed = <<"good", "bad", "blank">>
    /\ out.kind = "ok"
    /\ out.ml[1].type = "Unknown"
    /\ Len(out.ml[1].text) < Len(input)

\* C7: parse_one reports failure as a value: on every input it returns a
\* message; Unknown(input without trailing whitespace, Some(error)) when the
\* grammar fails, Unknown("", None) on an empty line.
C7_ParseOneValue ==
    op = "parse_one"
    => /\ out.kind = "ok"
       /\ (given.kind = "lines" /\ Len(given.fed) > 0 /\ given.fed[1] = "bad") =>
              /\ out.msg.type = "Unknown"
              /\ is_some(out.msg.error)
              /\ out.msg.text = trim_end(input)
       /\ (given.kind = "lines" /\ \A i \in 1..Len(given.fed) : given.fed[i] = "blank") =>
              out.msg = Unknown(<<>>, None)

\* C8: digit boundary: a depth, mate or movestogo written with 1 to 3
\* digits parses to that number; with 4 or more digits it is a grammar error.
C8_DigitBoundary ==
    (/\ op = "parse_strict"
     /\ given.kind = "number"
     /\ given.field \in {"go depth", "go mate", "go movestogo"})
    => IF Len(given.digits) <= 3
       THEN /\ out.kind = "ok"
            /\ Len(out.ml) = 1
            /\ LET n == Some(DigitsVal(given.digits))
                   m == out.ml[1]
               IN  CASE given.field = "go depth" -> unwrap(m.search_control).depth = n
                     [] given.field = "go mate" -> unwrap(m.search_control).mate = n
                     [] OTHER -> unwrap(m.time_control).moves_to_go = n
       ELSE out.kind = "err"

\* C9: no silent truncation: a numeric info attribute that is accepted
\* carries exactly the integer written in the text.
C9_NoTruncation ==
    (/\ op = "parse_strict"
     /\ given.kind = "number"
     /\ given.field \in {"depth", "seldepth", "multipv", "currmovenum", "hashfull",
                         "cpuload", "cpunr", "cp", "mate"}
     /\ out.kind = "ok")
    => LET a == out.ml[1].attrs[1]
           n == DigitsVal(given.digits)
       IN  CASE given.field = "cpunr" -> a.cpu_nr = Some(n)
             [] given.field = "cp" -> a.cp = Some(n)
             [] given.field = "mate" -> a.mate = Some(n)
             [] OTHER -> a.v = n

\* C10: blank input yields nothing: on a text of empty lines parse_strict,
\* parse and parse_with_unknown return the empty list; blank lines among
\* command lines add no message.
C10_BlankInput ==
    (op \in {"parse_strict", "parse", "parse_with_unknown"} /\ given.kind = "lines")
    => LET count(c) == Cardinality({i \in 1..Len(given.fed) : given.fed[i] = c})
       IN  /\ count("blank") = Len(given.fed) => out = [kind |-> "ok", ml |-> <<>>]
           /\ (count("bad") = 0 /\ count("wide") = 0) => out.kind = "ok"
           /\ (out.kind = "ok" /\ \A i \in 1..Len(out.ml) : out.ml[i].type # "Unknown") =>
                  Len(out.ml) = count("good")

\* C10 happens: the text "\n".
C10_Witness ==
    /\ op = "parse_with_unknown"
    /\ input = NL
    /\ out = [kind |-> "ok", ml |-> <<>>]

\* The entry point o called on the text s.
Run(o, s) ==
    CASE o = "parse_strict" -> parse_strict(s)
      [] o = "parse" -> parse(s)
      [] o = "parse_with_unknown" -> parse_with_unknown(s)
      [] o = "parse_one" -> parse_one(s)

\* The text with every "\n" written "\r\n".
RECURSIVE Crlf(_)
Crlf(s) ==
    IF Len(s) = 0 THEN <<>>
    ELSE (IF Head(s) = "\n" THEN <<"\r", "\n">> ELSE <<Head(s)>>) \o Crlf(Tail(s))

\* C11: line terminators do not matter: on a text of command lines, each of
\* parse_strict, parse and parse_with_unknown returns the same list for the
\* text without a final newline, with a final "\n", and with every "\n"
\* written "\r\n".
C11_LineTerminators ==
    (/\ op \in {"parse_strict", "parse", "parse_with_unknown"}
     /\ given.kind = "lines"
     /\ Len(given.fed) > 0
     /\ \A i \in 1..Len(given.fed) : given.fed[i] = "good"
     /\ \A i \in 1..Len(input) : input[i] # "\r")
    => /\ out.kind = "ok"
       /\ out = Run(op, input \o NL)
       /\ out = Run(op, Crlf(input))
       /\ out = Run(op, Crlf(input \o NL))

\* C11 happens: two command lines, and a "\r\n" between them makes no
\* difference.
C11_Witness ==
    /\ op = "parse"
    /\ given.kind = "lines"
    /\ given.fed = <<"good", "good">>
    /\ \A i \in 1..Len(input) : input[i] # "\r"
    /\ out.kind = "ok"
    /\ Len(out.ml) = 2
    /\ out = parse(Crlf(input \o NL))

\* C12: batch order: on a text whose non-blank lines are all commands,
\* parse_strict returns one message for each non-blank line, the i-th message
\* being the message of the i-th non-blank line.
C12_BatchOrder ==
    (/\ op = "parse_strict"
     /\ given.kind = "lines"
     /\ \A i \in 1..Len(given.fed) : given.fed[i] \in {"good", "blank"})
    => LET nb == SelectSeq(Lines(input), LAMBDA l : ~IsBlankLine(l))
       IN  /\ out.kind = "ok"
           /\ Len(out.ml) = Len(nb)
           /\ Len(nb) = Cardinality({i \in 1..Len(given.fed) : given.fed[i] = "good"})
           /\ \A i \in 1..Len(nb) :
                  /\ parse_strict(nb[i]).kind = "ok"
                  /\ Len(parse_strict(nb[i]).ml) = 1
                  /\ SameMessage(out.ml[i], parse_strict(nb[i]).ml[1])

\* C12 happens: two different commands with a blank line between them give
\* their two messages in the order of the lines.
C12_Witness ==
    /\ op = "parse_strict"
    /\ given.kind = "lines"
    /\ given.fed = <<"good", "blank", "good">>
    /\ out.kind = "ok"
    /\ Len(out.ml) = 2
    /\ out.ml[1].type = "Id"
    /\ out.ml[2].type = "Go"

\* The messages of the outcome of the last call.
OutMessages ==
    IF out.kind # "ok" THEN <<>>
    ELSE IF op = "parse_one" THEN <<out.msg>>
    ELSE out.ml

\* C13: search-control presence: a Go message of the parser has no search
\* control exactly when its line has no depth, mate, nodes or searchmoves
\* clause, and the parser never gives a search control that is empty.
C13_SearchControlPresence ==
    /\ \A i \in 1..Len(OutMessages) :
           (OutMessages[i].type = "Go" /\ is_some(OutMessages[i].search_control))
           => ~UciSearchControl_is_empty(unwrap(OutMessages[i].search_control))
    /\ (op # "none" /\ given.kind = "command" /\ given.about = "go")
       => /\ Len(OutMessages) = 1
          /\ OutMessages[1].type = "Go"
          /\ is_none(OutMessages[1].search_control) <=> given.x = <<>>

\* C13 happens: "go ponder" gives a Go message with a time control and no
\* search control.
C13_Witness ==
    /\ op = "parse_strict"
    /\ given.kind = "command"
    /\ given.about = "go"
    /\ given.x = <<>>
    /\ given.y # <<>>
    /\ out.kind = "ok"
    /\ is_some(out.ml[1].time_control)
    /\ is_none(out.ml[1].search_control)

\* C14: canonical Go text: the Go message without time control and search
\* control serializes to "go", and the text of every Go message has no
\* whitespace at its end and single spaces between its clauses.
C14_CanonicalGo ==
    (given.kind = "message" /\ given.msg.type = "Go")
    => /\ given.msg = UciGo(None, None) => input = KW.go
       /\ Len(input) > 0 /\ ~IsWhitespace(input[Len(input)])
       /\ \A i \in 1..(Len(input) - 1) : ~(input[i] = " " /\ input[i + 1] = " ")

\* The one message of the outcome is m.
OnlyMessage(m) == Len(OutMessages) = 1 /\ SameMessage(OutMessages[1], m)

\* C15 as stated: a register line with the name clause first and one with
\* the code clause first both give the Register message with later false and
\* both fields filled.
C15_OrderIndependent ==
    (op # "none" /\ given.kind = "command" /\ given.about = "register"
        /\ given.tag \in {"name code", "code name"})
    => OnlyMessage(register_code(given.x, given.y))

\* C15: a register line with the name clause first gives the Register
\* message with later false and both fields filled; the same clauses with the
\* code first are not a register line: parse_strict fails and no entry point
\* gives a Register message.
C15_NameBeforeCode ==
    (op # "none" /\ given.kind = "command" /\ given.about = "register")
    => /\ given.tag = "name code" => OnlyMessage(register_code(given.x, given.y))
       /\ given.tag = "code name"
          => /\ op = "parse_strict" => out.kind = "err"
             /\ \A i \in 1..Len(OutMessages) : OutMessages[i].type # "Register"
C15_Witness ==
    /\ op = "parse_strict" /\ given.kind = "command" /\ given.about = "register"
    /\ given.tag = "code name" /\ given.x = <<"a", " ", "b">> /\ out.kind = "err"

\* C16: a parsed Register message has later true and neither name nor code,
\* or later false and both of them; a register line with only the name clause
\* or only the code clause is a grammar error and gives no Register message.
C16_RegisterShape ==
    /\ \A i \in 1..Len(OutMessages) :
           OutMessages[i].type = "Register"
           => \/ /\ OutMessages[i].later
                 /\ is_none(OutMessages[i].name) /\ is_none(OutMessages[i].code)
              \/ /\ ~OutMessages[i].later
                 /\ is_some(OutMessages[i].name) /\ is_some(OutMessages[i].code)
    /\ (op # "none" /\ given.kind = "command" /\ given.about = "register")
       => /\ given.tag = "later" => OnlyMessage(register_later)
          /\ given.tag \in {"name", "code"}
             => /\ op = "parse_strict" => out.kind = "err"
                /\ \A i \in 1..Len(OutMessages) : OutMessages[i].type # "Register"
C16_Witness ==
    /\ op = "parse_strict" /\ given.kind = "command" /\ given.about = "register"
    /\ given.tag = "name" /\ out.kind = "err"

\* C17: a debug line whose switch is the word on, apart from the keyword by
\* whitespace, gives Debug(true), and one whose switch is off gives
\* Debug(false); a switch joined to the keyword, or any other word, also one
\* that only begins with on, is a parse error and gives no Debug message.
C17_DebugSwitch ==
    (op # "none" /\ given.kind = "command" /\ given.about = "debug")
    => IF given.tag = "spaced" /\ eq_ignore_ascii_case(given.x, KW.on)
       THEN OnlyMessage([type |-> "Debug", on |-> TRUE])
       ELSE IF given.tag = "spaced" /\ eq_ignore_ascii_case(given.x, KW.off)
       THEN OnlyMessage([type |-> "Debug", on |-> FALSE])
       ELSE /\ op = "parse_strict" => out.kind = "err"
            /\ \A i \in 1..Len(OutMessages) : OutMessages[i].type # "Debug"
C17_Witness ==
    /\ op = "parse_strict" /\ given.kind = "command" /\ given.about = "debug"
    /\ given.tag = "spaced" /\ given.x = KW.on
    /\ out.kind = "ok" /\ out.ml[1].type = "Debug" /\ out.ml[1].on

\* C18: a setoption line gives the SetOption message whose name is the text
\* between the name keyword and the first value keyword without the
\* whitespace around it, several words included, and whose value is the text
\* after that value keyword as written; without a value clause the value is
\* None.
C18_SetOptionParsing ==
    (op # "none" /\ given.kind = "command" /\ given.about = "setoption")
    => OnlyMessage([type |-> "SetOption", name |-> given.x,
                    value |-> IF given.tag = "value" THEN Some(given.y) ELSE None])
C18_Witness ==
    /\ op = "parse_strict" /\ given.kind = "command" /\ given.about = "setoption"
    /\ given.tag = "value" /\ given.x = <<"a", " ", "b">> /\ given.y = <<"x">> \o SP \o KW.value
    /\ out.kind = "ok" /\ out.ml[1].type = "SetOption"
    /\ out.ml[1].name = <<"a", " ", "b">> /\ is_some(out.ml[1].value)

\* C19: an option line of type check whose default is a word other than true
\* or false, in any case of the letters, still parses and gives the Check
\* option with default None; an option line of type spin whose default is
\* not an integer gives the Spin option with default None and with the min
\* and the max of the line.
C19_DefaultCoercion ==
    (op # "none" /\ given.kind = "command" /\ given.about = "option")
    => /\ given.tag = "check"
          => OnlyMessage([type |-> "Option",
                 config |-> [kind |-> "Check", name |-> given.x,
                     default |-> CASE given.y = KW.true -> Some(TRUE)
                                   [] given.y = <<"F", "a", "l", "s", "e">> -> Some(FALSE)
                                   [] OTHER -> None]])
       /\ given.tag = "spin"
          => OnlyMessage([type |-> "Option",
                 config |-> [kind |-> "Spin", name |-> given.x,
                     default |-> CASE given.y = <<"2">> -> Some(2)
                                   [] given.y = <<"-", "5">> -> Some(0 - 5)
                                   [] OTHER -> None,
                     min |-> Some(0), max |-> Some(4)]])
C19_Witness ==
    /\ op = "parse_strict" /\ given.kind = "command" /\ given.about = "option"
    /\ given.tag = "spin" /\ given.y = <<"a", "b", "c">>
    /\ out.kind = "ok" /\ out.ml[1].type = "Option" /\ out.ml[1].config.kind = "Spin"
    /\ is_none(out.ml[1].config.default) /\ out.ml[1].config.max = Some(4)

\* C20: an option line of type button gives the Option message of the bare
\* Button with the name of the line, whatever default, min, max and var
\* clauses follow the type, and the outcome is the outcome of the same line
\* without those clauses.
C20_ButtonIgnoresClauses ==
    (op # "none" /\ given.kind = "command" /\ given.about = "option"
        /\ given.tag = "button")
    => /\ OnlyMessage([type |-> "Option", config |-> [kind |-> "Button", name |-> given.x]])
       /\ out = Run(op, KW.option \o SP \o KW.name \o SP \o given.x \o SP \o KW.type
                           \o SP \o KW.button)
C20_Witness ==
    /\ op = "parse_strict" /\ given.kind = "command" /\ given.about = "option"
    /\ given.tag = "button" /\ Len(given.y) > 20
    /\ out.kind = "ok" /\ out.ml[1].type = "Option" /\ out.ml[1].config.kind = "Button"

\* C21: for an option line of type string or combo, a default that is the
\* token <empty> in any case of its letters gives the default Some(""), any
\* other default text gives Some of that text, and a line without a default
\* clause gives None.
C21_EmptyDefault ==
    (op # "none" /\ given.kind = "command" /\ given.about = "option")
    => LET marker == given.y \in {KW.empty, <<"<", "E", "m", "p", "t", "y", ">">>,
                                  <<"<", "E", "M", "P", "T", "Y", ">">>}
           def == IF marker THEN Some(<<>>) ELSE Some(given.y)
       IN  /\ given.tag = "string"
              => OnlyMessage([type |-> "Option",
                     config |-> [kind |-> "String", name |-> given.x, default |-> def]])
           /\ given.tag = "string no default"
              => OnlyMessage([type |-> "Option",
                     config |-> [kind |-> "String", name |-> given.x, default |-> None]])
           /\ given.tag = "combo"
              => OnlyMessage([type |-> "Option",
                     config |-> [kind |-> "Combo", name |-> given.x, default |-> def,
                                 var |-> << <<"A">>, <<"B">> >>]])
           /\ given.tag = "combo no default"
              => OnlyMessage([type |-> "Option",
                     config |-> [kind |-> "Combo", name |-> given.x, default |-> None,
                                 var |-> << <<"A">> >>]])
C21_Witness ==
    /\ op = "parse_strict" /\ given.kind = "command" /\ given.about = "option"
    /\ given.tag = "combo" /\ given.y = <<"<", "E", "m", "p", "t", "y", ">">>
    /\ out.kind = "ok" /\ out.ml[1].type = "Option" /\ out.ml[1].config.kind = "Combo"
    /\ out.ml[1].config.default = Some(<<>>)

\* The attribute the info clause named c stands for.
InfoClauseAttr(c) ==
    CASE c = "d" -> InfoNum("Depth", 5)
      [] c = "n" -> InfoNum("Nodes", 7)
      [] c = "c" -> InfoCurrLine(Some(1), <<UciMove(UciSquare("e", 2), UciSquare("e", 4), None)>>)
      [] c = "l" -> InfoCurrLine(None, <<UciMove(UciSquare("e", 2), UciSquare("e", 4), None)>>)
      [] c = "s" -> InfoScore(Some(3), None, None, None)

\* C22: an info line of k attribute clauses gives the Info message of
\* exactly k attributes, the i-th of them the attribute of the i-th clause of
\* the text, repeated clauses kept apart; and the text of an Info message is
\* the keyword followed by the texts of its attributes in the order of the
\* list.
C22_InfoOrder ==
    /\ (op # "none" /\ given.kind = "command" /\ given.about = "info"
          /\ given.tag = "clauses")
       => /\ Len(OutMessages) = 1
          /\ OutMessages[1].type = "Info"
          /\ Len(OutMessages[1].attrs) = Len(given.y)
          /\ \A i \in 1..Len(given.y) :
                 /\ OutMessages[1].attrs[i].attr = InfoClauseAttr(given.y[i]).attr
                 /\ OutMessages[1].attrs[i] = InfoClauseAttr(given.y[i])
    /\ (given.kind = "message" /\ given.msg.type = "Info")
       => LET attrs == given.msg.attrs
              text(i) == IF i <= Len(attrs) THEN SP \o serialize_info_attribute(attrs[i])
                         ELSE <<>>
          IN  /\ Len(attrs) <= 3
              /\ input = KW.info \o text(1) \o text(2) \o text(3)
C22_Witness ==
    /\ op = "parse_strict" /\ given.kind = "command" /\ given.about = "info"
    /\ given.y = <<"c", "d", "l">> /\ out.kind = "ok"
    /\ Len(out.ml[1].attrs) = 3 /\ out.ml[1].attrs[1].attr = "CurrLine"
    /\ out.ml[1].attrs[2].attr = "Depth" /\ out.ml[1].attrs[3].attr = "CurrLine"

\* C23: an info clause whose name is none of the attribute names gives the
\* attribute Any of that name and of all the text after it up to the end of
\* the line, as written; the line is not a parse error, whether the clause
\* comes first or after another attribute.
C23_InfoAny ==
    (op # "none" /\ given.kind = "command" /\ given.about = "info"
        /\ given.tag \in {"any", "any after depth"})
    => LET any == [attr |-> "Any", t |-> given.x, s |-> given.y]
       IN  /\ op = "parse_strict" => out.kind = "ok"
           /\ OnlyMessage([type |-> "Info",
                  attrs |-> IF given.tag = "any" THEN <<any>>
                            ELSE <<InfoNum("Depth", 5), any>>])
C23_Witness ==
    /\ op = "parse_strict" /\ given.kind = "command" /\ given.about = "info"
    /\ given.tag = "any after depth" /\ given.x = <<"U", "_", "W">>
    /\ given.y = KW.depth \o SP \o <<"5">>
    /\ out.kind = "ok" /\ Len(out.ml[1].attrs) = 2 /\ out.ml[1].attrs[2].attr = "Any"

C25_PositionSource ==
    /\ \A i \in 1..Len(OutMessages) :
           OutMessages[i].type = "Position"
           => (OutMessages[i].startpos <=> is_none(OutMessages[i].fen))
    /\ (op # "none" /\ given.kind = "command" /\ given.about = "position")
       => LET moves == IF given.y = <<>> THEN <<>>
                       ELSE <<UciMove(UciSquare("e", 2), UciSquare("e", 4), None)>>
          IN  /\ given.tag = "startpos"
                 => OnlyMessage([type |-> "Position", startpos |-> TRUE, fen |-> None,
                                 moves |-> moves])
              /\ given.tag = "fen"
                 => OnlyMessage([type |-> "Position", startpos |-> FALSE,
                                 fen |-> Some(given.x), moves |-> moves])
              /\ given.tag \in {"both", "neither"}
                 => /\ op = "parse_strict" => out.kind = "err"
                    /\ \A i \in 1..Len(OutMessages) : OutMessages[i].type # "Position"
C25_Witness ==
    /\ op = "parse_strict" /\ given.kind = "command" /\ given.about = "position"
    /\ given.tag = "fen" /\ given.y # <<>> /\ out.kind = "ok"
    /\ out.ml[1].type = "Position" /\ ~out.ml[1].startpos
    /\ out.ml[1].fen = Some(<<"8", "/", "8", " ", "w", " ", " ", " ", "-">>)
    /\ Len(out.ml[1].moves) = 1

\* C26: parse_one on a text of several recognized lines gives the message of
\* the first line: not the message of a later line and not Unknown.
C26_ParseOneFirstLine ==
    (op = "parse_one" /\ given.kind = "lines" /\ Len(given.fed) >= 2
        /\ \A i \in 1..Len(given.fed) : given.fed[i] = "good")
    => /\ out.kind = "ok"
       /\ out.msg.type # "Unknown"
       /\ SameMessage(out.msg, parse_strict(Lines(input)[1]).ml[1])
C26_Witness ==
    /\ op = "parse_one" /\ given.kind = "lines" /\ given.fed = <<"good", "good">>
    /\ Lines(input)[1] = KW.uci /\ Lines(input)[2] # KW.uci
    /\ out.kind = "ok" /\ out.msg.type = "Uci"

\* C27: a go line of time-left clauses, any of wtime, btime, winc, binc and
\* movestogo in any order, gives under parse_strict the Go message whose time
\* control is TimeLeft with the fields of the clauses of the line set to
\* their values and every other field None: the order of the clauses does
\* not matter.
C27_TimeLeftCommutes ==
    (op = "parse_strict" /\ given.kind = "command" /\ given.about = "go"
        /\ given.tag = "timeleft")
    => LET on == {given.y[i] : i \in 1..Len(given.y)}
           field(c, v) == IF c \in on THEN Some(v) ELSE None
       IN  /\ out.kind = "ok"
           /\ Len(out.ml) = 1
           /\ out.ml[1].type = "Go"
           /\ out.ml[1] = [type |-> "Go",
                           time_control |->
                               Some([tc |-> "TimeLeft",
                                     white_time |-> field("wtime", 5),
                                     black_time |-> field("btime", 6),
                                     white_increment |-> field("winc", 2),
                                     black_increment |-> field("binc", 3),
                                     moves_to_go |-> field("movestogo", 4)]),
                           search_control |-> None]
C27_Witness ==
    /\ op = "parse_strict" /\ given.kind = "command" /\ given.about = "go"
    /\ given.tag = "timeleft" /\ given.y = <<"movestogo", "binc", "wtime">>
    /\ out.kind = "ok" /\ out.ml[1].time_control[1].white_time = Some(5)
    /\ out.ml[1].time_control[1].black_time = None
    /\ out.ml[1].time_control[1].moves_to_go = Some(4)

\* C28: the text of every Go message with a time control or a search control
\* that is not empty uses the keywords the parser knows, so parse_one of the
\* text is not Unknown and is the message again.
C28_GoWireKeywords ==
    (op = "parse_one" /\ given.kind = "message" /\ given.msg.type = "Go"
        /\ (is_some(given.msg.time_control) \/ is_some(given.msg.search_control)))
    => /\ out.kind = "ok"
       /\ out.msg.type = "Go"
       /\ out.msg = given.msg

\* C29: the text of a Score attribute holds the word lowerbound exactly when
\* its lower_bound is Some(true) and the word upperbound exactly when its
\* upper_bound is Some(true), and parse_one of the text of an Info message of
\* one Score gives the message again, also for flags that are Some(false) or
\* both set.
C29_ScoreBounds ==
    (given.kind = "message" /\ given.msg.type = "Info" /\ Len(given.msg.attrs) = 1
        /\ given.msg.attrs[1].attr = "Score")
    => LET a == given.msg.attrs[1]
           holds(kw) == \E i \in 1..Len(input) :
                            i + Len(kw) - 1 <= Len(input)
                            /\ SubSeq(input, i, i + Len(kw) - 1) = kw
       IN  /\ holds(KW.lowerbound) <=> a.lower_bound = Some(TRUE)
           /\ holds(KW.upperbound) <=> a.upper_bound = Some(TRUE)
           /\ op = "parse_one"
              => /\ out.kind = "ok"
                 /\ out.msg.type = "Info"
                 /\ out.msg = given.msg


\* C30: two moves with the same squares and different promotion fields (None
\* or any of the six pieces) have different texts, and parse_one of the text
\* of a best move gives a move with the same promotion field.
C30_PromotionInjective ==
    (given.kind = "message" /\ given.msg.type = "BestMove")
    => LET b == given.msg.best_move
       IN  /\ \A m \in Moves :
                  (m.from = b.from /\ m.to = b.to /\ m.promotion # b.promotion)
                  => fmt_move(m) # fmt_move(b)
           /\ op = "parse_one"
              => /\ out.kind = "ok"
                 /\ out.msg.type = "BestMove"
                 /\ out.msg.best_move.promotion = b.promotion

\* C30, amended: a promotion to Pawn is written without a letter, like no
\* promotion. Two moves with the same squares have the same text exactly when
\* their promotion fields are equal once Some(Pawn) is taken for None, and
\* parse_one of the text of a best move gives that promotion field: the same
\* one for None, Knight, Bishop, Rook, Queen and King, None for Pawn.
C30_PromotionLetters ==
    (given.kind = "message" /\ given.msg.type = "BestMove")
    => LET b == given.msg.best_move
           written(p) == IF p = Some("Pawn") THEN None ELSE p
       IN  /\ \A m \in Moves :
                  (m.from = b.from /\ m.to = b.to)
                  => (fmt_move(m) = fmt_move(b)
                      <=> written(m.promotion) = written(b.promotion))
           /\ op = "parse_one"
              => /\ out.kind = "ok"
                 /\ out.msg.type = "BestMove"
                 /\ out.msg.best_move.promotion = written(b.promotion)

C30_Witness ==
    /\ op = "parse_one"
    /\ given.kind = "message"
    /\ given.msg.type = "BestMove"
    /\ given.msg.best_move.promotion = Some("Pawn")
    /\ out.kind = "ok"
    /\ out.msg.type = "BestMove"
    /\ out.msg.best_move.promotion = None

====
